---- MODULE Spec2Model ----
(***************************************************************************)
(* Dated-record insertion scripts of the repository, as state machines.    *)
(*                                                                         *)
(* A worksheet is a sequence of rows; row 1 is the header row.  A row is a *)
(* record [v, s]: v maps a column to the cell's value, s maps a column to  *)
(* the cell's style dictionary [font, fill] (border and alignment are      *)
(* copied exactly as font is and are folded into it).                      *)
(*                                                                         *)
(* Cell values are integers:                                               *)
(*   NoneVal      an empty cell (Python None)                              *)
(*   HeaderLabel  the text of a header cell (the column's own label)       *)
(*   d >= 1       in the Note Date column: a value the script's date       *)
(*                parser accepts, standing for calendar day d              *)
(*   100 + k      the Note text of the k-th pre-existing data row          *)
(*   200 + j      the "text" of the j-th JSONL record, 400 + j its         *)
(*                "example_id", 300 the name of the JSONL file             *)
(*   500 + k      the k-th row's cell in a passthrough column headed       *)
(*                "Note_Date", when the sheet has such a column            *)
(* A column the sheet does not have holds NoneVal in every row, header     *)
(* included.  The sheets of insert_notes have their own columns and value  *)
(* forms, given with that script.                                          *)
(***************************************************************************)
EXTENDS Integers, Sequences, FiniteSets, TLC

VARIABLES
    variant,                  \* which script runs
    pc,                       \* its control position
    hasNote_Date,             \* the sheet has a column headed "Note_Date"
    ws,                       \* the worksheet in memory (header row first)
    file,                     \* the worksheet as last saved to the .xlsx file
    original_ws,              \* the worksheet as it was loaded (never changes)
    all_records,              \* the JSONL records, in processing order
    idx,                      \* number of records the insertion loop has taken
    eligible_rows,            \* new6po / new7to: sheet row numbers
    candidate_rows,           \* new8op: <<row, date>> pairs inside the window
    scored_insertion_points,  \* new9gem: remaining [score, idx] slots
    insertion_offsets,        \* new9gem: original index -> rows inserted before it
    combined_data,            \* new9gem / new9gemin: rows in memory
    combined_styles,          \* new9gem / new9gemin: their styles
    inserted_count,           \* new9gem: records placed
    combined_annotated_rows,  \* new9gemin: [date, is_new, data, style], sorted
    best_row,                 \* new10: the sheet row every record goes above
    eligible_indices,         \* new5high / new6up / new8gem: 0-based indices
    style_api,                \* new8gem: the installed openpyxl has the style
                              \*   calls of lines 205-214
    selected_cases,           \* insert_notes: the cases to process, in order
    case_i,                   \* insert_notes: cases taken by the outer loop
    case_queue_dates,         \* insert_notes: case -> Queue In Date (its day)
    queue_time,               \* insert_notes: time of day of the Queue In
                              \*   Dates (0: midnight, 1: later in the day)
    case_rows,                \* insert_notes: <<row, note date>> of the case
    subset,                   \* insert_notes: the sampled records of the case
    case_block,               \* pick_insertion_date: the case's Note Dates
    queue_date,               \* pick_insertion_date: Queue In Date of the case
    insert_date,              \* pick_insertion_date: the value returned
    cell_input,               \* parse_note_date: the cell value passed
    parsed,                   \* parse_note_date: the outcome of the call
    variant_block,            \* create_case_variants: the block being built
    all_variant_rows,         \* create_case_variants: the rows emitted
    history                   \* log of the insertions made (for the properties)

vars == <<variant, pc, hasNote_Date, ws, file, original_ws, all_records, idx, eligible_rows,
          candidate_rows, scored_insertion_points, insertion_offsets,
          combined_data, combined_styles, inserted_count,
          combined_annotated_rows, best_row, eligible_indices, style_api,
          selected_cases, case_i, case_queue_dates, queue_time, case_rows, subset,
          case_block, queue_date, insert_date, cell_input, parsed, variant_block,
          all_variant_rows, history>>

\* State of the scripts modelled further down.
thresholdVars == <<best_row, eligible_indices, style_api>>
notesVars == <<selected_cases, case_i, case_queue_dates, queue_time, case_rows,
               subset>>
pickVars == <<case_block, queue_date, insert_date, cell_input, parsed,
              variant_block, all_variant_rows>>
laterUnchanged == <<thresholdVars, notesVars, pickVars>>

----------------------------------------------------------------------------
(* Bounds of the model *)

MaxRows == 3
MaxCands == 2

----------------------------------------------------------------------------
(* Values *)

NoneVal == -1
HeaderLabel == -3
HighlightFill == 2
Cols == {"Case", "NoteDate", "Note", "FileName", "ExampleID", "Note_Date"}

EmptyStyleDict == [font |-> 0, fill |-> 0]

Min(S) == CHOOSE x \in S : \A y \in S : x <= y

\* Mutant: the row is written over position i instead of shifting rows down.
InsertAt_Overwrite(seq, i, x) == [k \in 1..Len(seq) |-> IF k = i THEN x ELSE seq[k]]

InsertAt(seq, i, x) == SubSeq(seq, 1, i - 1) \o <<x>> \o SubSeq(seq, i, Len(seq))

Range(seq) == {seq[i] : i \in 1..Len(seq)}

\* Mutant: equal keys come out in reverse order.
SortRank_TiesReversed(keys, i) ==
    Cardinality({j \in 1..Len(keys) :
                   keys[j] < keys[i] \/ (keys[j] = keys[i] /\ j > i)}) + 1

\* list.sort(key=...) is stable: position of element i in the sorted list.
SortRank(keys, i) ==
    Cardinality({j \in 1..Len(keys) :
                   keys[j] < keys[i] \/ (keys[j] = keys[i] /\ j < i)}) + 1

StableSortByKey(seq, keys) ==
    [r \in 1..Len(seq) |-> seq[CHOOSE i \in 1..Len(seq) : SortRank(keys, i) = r]]

\* random.shuffle: any arrangement of the list.
Shuffles(seq) ==
    {[i \in 1..Len(seq) |-> seq[p[i]]] :
        p \in {q \in [1..Len(seq) -> 1..Len(seq)] :
                 \A a, b \in 1..Len(seq) : a # b => q[a] # q[b]}}

----------------------------------------------------------------------------
(* Inputs *)

\* The k-th pre-existing data row, with Note Date cell d.
ExistingRow(k, d, u) ==
    [v |-> [Case |-> 7 + (k % 2), NoteDate |-> d, Note |-> 100 + k,
            FileName |-> NoneVal, ExampleID |-> NoneVal,
            Note_Date |-> IF u THEN 500 + k ELSE NoneVal],
     s |-> [c \in Cols |->
              [font |-> 1,
               fill |-> IF c = "Case" THEN 10 + k
                        ELSE IF c = "Note" THEN 20 + k ELSE 0]]]

\* Header row, then the data rows.
SheetOf(dates, u) ==
    <<[v |-> [c \in Cols |-> IF c = "Note_Date" /\ ~u THEN NoneVal ELSE HeaderLabel],
       s |-> [c \in Cols |-> EmptyStyleDict]]>>
    \o [k \in 1..Len(dates) |-> ExistingRow(k, dates[k], u)]

\* The j-th record read from the JSONL files.
JsonlRecord(j) == [Note |-> 200 + j, FileName |-> 300, ExampleID |-> 400 + j]

RecordsOf(n) == [j \in 1..n |-> JsonlRecord(j)]

DateSeqs(D) == UNION {[1..m -> D] : m \in 0..MaxRows}

\* A sheet that has no column c: no header cell, no cell in any row.
WithoutColumn(sheet, c) ==
    [k \in 1..Len(sheet) |->
       [v |-> [sheet[k].v EXCEPT ![c] = NoneVal],
        s |-> [sheet[k].s EXCEPT ![c] = EmptyStyleDict]]]

InitThresholdVars ==
    /\ best_row = NoneVal
    /\ eligible_indices = <<>>
    /\ style_api = TRUE

InitNotesVars ==
    /\ selected_cases = <<>>
    /\ case_i = 0
    /\ case_queue_dates = <<>>
    /\ queue_time = 0
    /\ case_rows = <<>>
    /\ subset = <<>>

InitPickVars ==
    /\ case_block = <<>>
    /\ queue_date = NoneVal
    /\ insert_date = NoneVal
    /\ cell_input = NoneVal
    /\ parsed = NoneVal
    /\ variant_block = <<>>
    /\ all_variant_rows = <<>>

\* The script v is about to run on the loaded sheet with the loaded records.
InitLedger(v, u, sheet, records) ==
    /\ variant = v
    /\ pc = "start"
    /\ hasNote_Date = u
    /\ ws = sheet
    /\ file = sheet
    /\ original_ws = sheet
    /\ all_records = records
    /\ idx = 0
    /\ eligible_rows = <<>>
    /\ candidate_rows = <<>>
    /\ scored_insertion_points = <<>>
    /\ insertion_offsets = <<>>
    /\ combined_data = <<>>
    /\ combined_styles = <<>>
    /\ inserted_count = 0
    /\ combined_annotated_rows = <<>>
    /\ history = <<>>

InitWith(v, D, U) ==
    /\ \E u \in U, dates \in DateSeqs(D), n \in 0..MaxCands :
         InitLedger(v, u, SheetOf(dates, u), RecordsOf(n))
    /\ InitThresholdVars
    /\ InitNotesVars
    /\ InitPickVars

\* Sheets that lack the Case or the Note Date column.
LackingSheets(D) ==
    {WithoutColumn(SheetOf(dates, FALSE), c) :
        c \in {"Case", "NoteDate"}, dates \in DateSeqs(D)}

InitLacking(v, D) ==
    /\ \E sheet \in LackingSheets(D), n \in 0..MaxCands :
         InitLedger(v, FALSE, sheet, RecordsOf(n))
    /\ InitThresholdVars
    /\ InitNotesVars
    /\ InitPickVars

----------------------------------------------------------------------------
(* The in-place scripts: new6po.py, new7to.py, new8op.py *)

ReferenceDay == 100
ThresholdDays == 45
WindowDays == 90

InPlaceDates == {NoneVal, 40, 60, 120}

\* datetime cell, or text in the script's format; anything else is no date.
parse_note_date(cell_value) == IF cell_value >= 1 THEN cell_value ELSE NoneVal

threshold_date == ReferenceDay - ThresholdDays

gemUnchanged == <<scored_insertion_points, insertion_offsets, combined_data,
                  combined_styles, inserted_count, combined_annotated_rows>>

\* Mutant: Note Date is not copied from the row above.
InPlaceNewRow_NoDateCopy(above, rec, noteFill) ==
    [v |-> [Case |-> above.v.Case, NoteDate |-> NoneVal,
            Note |-> rec.Note, FileName |-> rec.FileName,
            ExampleID |-> rec.ExampleID, Note_Date |-> NoneVal],
     s |-> [c \in Cols |-> IF c = "Note"
                           THEN [font |-> 0, fill |-> noteFill]
                           ELSE EmptyStyleDict]]

\* The row written into the freshly inserted blank sheet row.
InPlaceNewRow(above, rec, noteFill) ==
    [v |-> [Case |-> above.v.Case, NoteDate |-> above.v.NoteDate,
            Note |-> rec.Note, FileName |-> rec.FileName,
            ExampleID |-> rec.ExampleID, Note_Date |-> NoneVal],
     s |-> [c \in Cols |-> IF c = "Note"
                           THEN [font |-> 0, fill |-> noteFill]
                           ELSE EmptyStyleDict]]

\* Rows 2..max_row whose Note Date parses and is on or before the threshold.
EligibleRows(sheet) ==
    SelectSeq([i \in 1..Len(sheet) |-> i],
              LAMBDA r : /\ r >= 2
                         /\ parse_note_date(sheet[r].v.NoteDate) # NoneVal
                         /\ parse_note_date(sheet[r].v.NoteDate) <= threshold_date)

Po_Start ==
    /\ variant = "new6po" /\ pc = "start"
    /\ IF all_records = <<>>
       THEN pc' = "norecords" /\ UNCHANGED <<all_records, eligible_rows>>
       ELSE IF EligibleRows(ws) = <<>>
       THEN pc' = "noeligible" /\ UNCHANGED <<all_records, eligible_rows>>
       ELSE /\ pc' = "loop"
            /\ eligible_rows' = EligibleRows(ws)
            /\ all_records' \in Shuffles(all_records)
    /\ UNCHANGED <<variant, hasNote_Date, original_ws, laterUnchanged, ws, file, idx, candidate_rows, history>>
    /\ UNCHANGED gemUnchanged

\* Mutant: the index of the row inserted at is not moved.
Po_ShiftEligible_Strict(rows, insert_row) ==
    [i \in 1..Len(rows) |-> IF rows[i] > insert_row THEN rows[i] + 1 ELSE rows[i]]

Po_ShiftEligible(rows, insert_row) ==
    [i \in 1..Len(rows) |-> IF rows[i] >= insert_row THEN rows[i] + 1 ELSE rows[i]]

Po_Insert ==
    /\ variant = "new6po" /\ pc = "loop" /\ idx < Len(all_records)
    /\ \E insert_row \in Range(eligible_rows) :
         /\ ws' = InsertAt(ws, insert_row,
                           InPlaceNewRow(ws[insert_row - 1], all_records[idx + 1],
                                         HighlightFill))
         /\ eligible_rows' = Po_ShiftEligible(eligible_rows, insert_row)
         /\ history' = Append(history, [at |-> insert_row, below |-> ws[insert_row]])
    /\ idx' = idx + 1
    /\ pc' = IF idx + 1 = Len(all_records) THEN "save" ELSE "loop"
    /\ UNCHANGED <<variant, hasNote_Date, original_ws, laterUnchanged, file, all_records, candidate_rows>>
    /\ UNCHANGED gemUnchanged

\* wb.save(excel_file)
SaveWorkbook ==
    /\ pc = "save"
    /\ file' = ws
    /\ pc' = "done"
    /\ UNCHANGED <<variant, hasNote_Date, original_ws, laterUnchanged, ws, all_records, idx, eligible_rows,
                   candidate_rows, history>>
    /\ UNCHANGED gemUnchanged

InitNew6po == InitWith("new6po", InPlaceDates, {FALSE})
NextNew6po == Po_Start \/ Po_Insert \/ SaveWorkbook
SpecNew6po == InitNew6po /\ [][NextNew6po]_vars

----------------------------------------------------------------------------
(* new7to.py: the eligible rows are computed once and never re-indexed *)

To_Start ==
    /\ variant = "new7to" /\ pc = "start"
    /\ IF all_records = <<>>
       THEN pc' = "norecords" /\ UNCHANGED <<all_records, eligible_rows>>
       ELSE IF EligibleRows(ws) = <<>>
       THEN pc' = "noeligible" /\ UNCHANGED <<all_records, eligible_rows>>
       ELSE /\ pc' = "loop"
            /\ eligible_rows' = EligibleRows(ws)
            /\ all_records' \in Shuffles(all_records)
    /\ UNCHANGED <<variant, hasNote_Date, original_ws, laterUnchanged, ws, file, idx, candidate_rows, history>>
    /\ UNCHANGED gemUnchanged

To_Insert ==
    /\ variant = "new7to" /\ pc = "loop" /\ idx < Len(all_records)
    /\ \E insert_row \in Range(eligible_rows) :
         /\ ws' = InsertAt(ws, insert_row,
                           InPlaceNewRow(ws[insert_row - 1], all_records[idx + 1], 0))
         /\ history' = Append(history, [at |-> insert_row, below |-> ws[insert_row]])
    /\ idx' = idx + 1
    /\ pc' = IF idx + 1 = Len(all_records) THEN "save" ELSE "loop"
    /\ UNCHANGED <<variant, hasNote_Date, original_ws, laterUnchanged, file, all_records, eligible_rows,
                   candidate_rows>>
    /\ UNCHANGED gemUnchanged

InitNew7to == InitWith("new7to", InPlaceDates, {FALSE})
NextNew7to == To_Start \/ To_Insert \/ SaveWorkbook
SpecNew7to == InitNew7to /\ [][NextNew7to]_vars

----------------------------------------------------------------------------
(* new8op.py: insert above the date-order middle row of the 90-day window *)

window_start == ReferenceDay - WindowDays

InWindow(sheet, r) ==
    /\ r >= 2
    /\ parse_note_date(sheet[r].v.NoteDate) # NoneVal
    /\ window_start <= parse_note_date(sheet[r].v.NoteDate)
    /\ parse_note_date(sheet[r].v.NoteDate) <= ReferenceDay

\* <<row, date>> pairs of the window, sorted by date (stable).
CandidateRows(sheet) ==
    LET found == SelectSeq([i \in 1..Len(sheet) |-> i], LAMBDA r : InWindow(sheet, r))
        pairs == [i \in 1..Len(found) |->
                    <<found[i], parse_note_date(sheet[found[i]].v.NoteDate)>>]
    IN  StableSortByKey(pairs, [i \in 1..Len(pairs) |-> pairs[i][2]])

Op_Start ==
    /\ variant = "new8op" /\ pc = "start"
    /\ IF all_records = <<>>
       THEN pc' = "norecords" /\ UNCHANGED <<all_records, candidate_rows>>
       ELSE IF CandidateRows(ws) = <<>>
       THEN pc' = "noeligible" /\ UNCHANGED <<all_records, candidate_rows>>
       ELSE /\ pc' = "loop"
            /\ candidate_rows' = CandidateRows(ws)
            /\ all_records' \in Shuffles(all_records)
    /\ UNCHANGED <<variant, hasNote_Date, original_ws, laterUnchanged, ws, file, idx, eligible_rows, history>>
    /\ UNCHANGED gemUnchanged

\* candidate_rows[len // 2], 0-based
Op_TargetRow(rows) == rows[(Len(rows) \div 2) + 1][1]

Op_Insert ==
    /\ variant = "new8op" /\ pc = "loop" /\ idx < Len(all_records)
    /\ LET target_row == Op_TargetRow(candidate_rows)
       IN  /\ ws' = InsertAt(ws, target_row,
                             InPlaceNewRow(ws[target_row - 1], all_records[idx + 1], 0))
           /\ history' = Append(history, [at |-> target_row, below |-> ws[target_row]])
    /\ idx' = idx + 1
    /\ pc' = IF idx + 1 = Len(all_records) THEN "save" ELSE "loop"
    /\ UNCHANGED <<variant, hasNote_Date, original_ws, laterUnchanged, file, all_records, eligible_rows,
                   candidate_rows>>
    /\ UNCHANGED gemUnchanged

InitNew8op == InitWith("new8op", InPlaceDates, {FALSE})
NextNew8op == Op_Start \/ Op_Insert \/ SaveWorkbook
SpecNew8op == InitNew8op /\ [][NextNew8op]_vars

InitInPlace == InitNew6po \/ InitNew7to \/ InitNew8op
NextInPlace ==
    \/ Po_Start \/ Po_Insert
    \/ To_Start \/ To_Insert
    \/ Op_Start \/ Op_Insert
    \/ SaveWorkbook
SpecInPlace == InitInPlace /\ [][NextInPlace]_vars

----------------------------------------------------------------------------
(* new9gem.py: multi-tier scored insertion, done in memory, then written back *)

TargetPriorIntervals == <<20, 10, 10>>
TierWeight == 1000
Inf == 1000000

GemDates == {NoneVal, 70, 80, 85, 90, 1090}

\* sorted(list(set(target_prior_intervals)))
sorted_intervals ==
    LET S == Range(TargetPriorIntervals)
    IN  [r \in 1..Cardinality(S) |->
           CHOOSE x \in S : Cardinality({y \in S : y < x}) = r - 1]

calculated_target_dates(days_prior) == ReferenceDay - days_prior

\* Score of one tier for a dated row (interval_idx is 0-based).
TierScore(interval_idx, diff_days) == (interval_idx * TierWeight) + diff_days

\* Mutant: the test diff_days >= 0 is dropped.
BestScore_NoGuard(cell_value) ==
    LET row_note_date == parse_note_date(cell_value)
        matched == {TierScore(i - 1,
                              row_note_date - calculated_target_dates(sorted_intervals[i])) :
                      i \in 1..Len(sorted_intervals)}
    IN  IF row_note_date = NoneVal THEN Inf ELSE Min(matched)

\* best_score_for_this_idx of a row whose Note Date cell holds cell_value.
BestScore(cell_value) ==
    LET row_note_date == parse_note_date(cell_value)
        matched == {TierScore(i - 1,
                              row_note_date - calculated_target_dates(sorted_intervals[i])) :
                      i \in {t \in 1..Len(sorted_intervals) :
                               row_note_date
                                 - calculated_target_dates(sorted_intervals[t]) >= 0}}
    IN  IF row_note_date = NoneVal \/ matched = {} THEN Inf ELSE Min(matched)

\* Mutant: the scored points are left in sheet order.
ScoredInsertionPoints_Unsorted(rows) ==
    [k \in 1..Len(rows) |-> [score |-> BestScore(rows[k].NoteDate), idx |-> k - 1]]

\* scored_insertion_points after the sort: [score, idx] with idx 0-based.
ScoredInsertionPoints(rows) ==
    LET pts == [k \in 1..Len(rows) |->
                  [score |-> BestScore(rows[k].NoteDate), idx |-> k - 1]]
    IN  StableSortByKey(pts, [k \in 1..Len(pts) |-> pts[k].score])

inPlaceUnchanged == <<eligible_rows, candidate_rows>>

required_headers == {"Case", "NoteDate", "Note", "FileName", "ExampleID"}

\* Step 4: a required header that row 1 does not have is written into row 1.
\* The test that follows it (all required headers are in col_map) then holds.
EnsureHeaders(sheet) ==
    [sheet EXCEPT ![1].v = [c \in Cols |-> IF c \in required_headers
                                           THEN HeaderLabel ELSE @[c]]]

Gem_Start ==
    /\ variant = "new9gem" /\ pc = "start"
    /\ LET existing_rows_data == [k \in 1..Len(ws) - 1 |-> ws[k + 1].v]
           existing_rows_styles ==
               [k \in 1..Len(ws) - 1 |-> [d |-> ws[k + 1].s, shared |-> FALSE]]
           scored == ScoredInsertionPoints(existing_rows_data)
       IN  IF all_records = <<>>
           THEN /\ pc' = "norecords"
                /\ UNCHANGED ws
                /\ UNCHANGED gemUnchanged
           ELSE IF scored = <<>> \/ scored[1].score = Inf
           THEN /\ pc' = "noeligible"
                /\ ws' = EnsureHeaders(ws)
                /\ UNCHANGED gemUnchanged
           ELSE /\ pc' = "loop"
                /\ ws' = EnsureHeaders(ws)
                /\ scored_insertion_points' = scored
                /\ combined_data' = existing_rows_data
                /\ combined_styles' = existing_rows_styles
                /\ insertion_offsets' = [i \in 0..Len(existing_rows_data) |-> 0]
                /\ inserted_count' = 0
                /\ UNCHANGED combined_annotated_rows
    /\ UNCHANGED <<variant, hasNote_Date, original_ws, laterUnchanged, file, all_records, idx,
                   history>>
    /\ UNCHANGED inPlaceUnchanged

\* Mutant: the offsets at and below the insertion point are incremented.
BumpOffsets_Below(offsets, original_insert_idx) ==
    [i \in DOMAIN offsets |->
       IF i <= original_insert_idx THEN offsets[i] + 1 ELSE offsets[i]]

\* for i in range(original_insert_idx, len(insertion_offsets)): offsets[i] += 1
BumpOffsets(offsets, original_insert_idx) ==
    [i \in DOMAIN offsets |->
       IF i >= original_insert_idx THEN offsets[i] + 1 ELSE offsets[i]]

\* Mutant: the record goes below the row that owns the slot.
CurrentInsertIdx_After(offsets, original_insert_idx) ==
    original_insert_idx + offsets[original_insert_idx] + 1

\* current_insert_idx (0-based)
CurrentInsertIdx(offsets, original_insert_idx) ==
    original_insert_idx + offsets[original_insert_idx]

\* Values of the new row; prev is the row above, or NoneVal-filled at index 0.
\* Note Date is read through col_map["Note_Date"].
Gem_NewRowValues(rec, hasPrev, prev) ==
    [Case |-> IF hasPrev THEN prev.Case ELSE NoneVal,
     NoteDate |-> IF hasPrev THEN prev.Note_Date ELSE NoneVal,
     Note |-> rec.Note, FileName |-> rec.FileName, ExampleID |-> rec.ExampleID,
     Note_Date |-> NoneVal]

\* style[col]['fill'] = fill; dictionaries shared between columns change together.
SetFill(style, col, fill) ==
    [d |-> [c \in Cols |-> IF c = col \/ style.shared
                           THEN [style.d[c] EXCEPT !.fill = fill]
                           ELSE style.d[c]],
     shared |-> style.shared]

\* Mutant: the new row's list holds the dictionaries of the row above.
DeepCopyAliases_SameObjects(above) == IF above > 0 THEN {above} ELSE {}

\* copy.deepcopy gives the new row dictionaries of its own: the positions of
\* the rows (above is the row copied from) whose dictionaries the new row's
\* list still references.
DeepCopyAliases(above) == {}

\* ...['fill'] = fill through the new row's dictionaries shows in every row
\* that references the same dictionaries.
WriteThrough(styles, rows, col, fill) ==
    [k \in 1..Len(styles) |->
       IF k \in rows THEN SetFill(styles[k], col, fill) ELSE styles[k]]

\* Each inherited dictionary is deep-copied on its own, then Note is highlighted.
Gem_NewRowStyle(hasPrev, prevStyle) ==
    SetFill([d |-> IF hasPrev THEN prevStyle.d ELSE [c \in Cols |-> EmptyStyleDict],
             shared |-> FALSE],
            "Note", HighlightFill)

Gem_Insert ==
    /\ variant = "new9gem" /\ pc = "loop" /\ idx < Len(all_records)
    /\ IF scored_insertion_points = <<>>
       THEN \* ran out of slots: break
            /\ pc' = "write"
            /\ UNCHANGED <<idx, history>>
            /\ UNCHANGED gemUnchanged
       ELSE LET rec == all_records[idx + 1]
                slot == Head(scored_insertion_points)
                cur == CurrentInsertIdx(insertion_offsets, slot.idx)
            IN  /\ scored_insertion_points' = Tail(scored_insertion_points)
                /\ IF cur > 0 /\ ~hasNote_Date
                   THEN \* col_map["Note_Date"]: KeyError, the script dies
                        /\ pc' = "crashed"
                        /\ history' = Append(history,
                               [score |-> slot.score, slot |-> slot.idx, at |-> cur,
                                note |-> rec.Note, placed |-> FALSE])
                        /\ UNCHANGED <<idx, insertion_offsets, combined_data,
                                       combined_styles, inserted_count>>
                   ELSE /\ combined_data' =
                              InsertAt(combined_data, cur + 1,
                                       Gem_NewRowValues(rec, cur > 0,
                                           IF cur > 0 THEN combined_data[cur]
                                           ELSE [c \in Cols |-> NoneVal]))
                        /\ combined_styles' =
                              InsertAt(WriteThrough(combined_styles,
                                           DeepCopyAliases(cur), "Note",
                                           HighlightFill),
                                       cur + 1,
                                       Gem_NewRowStyle(cur > 0,
                                           IF cur > 0 THEN combined_styles[cur]
                                           ELSE [d |-> [c \in Cols |-> EmptyStyleDict],
                                                 shared |-> TRUE]))
                        /\ inserted_count' = inserted_count + 1
                        /\ insertion_offsets' = BumpOffsets(insertion_offsets, slot.idx)
                        /\ history' = Append(history,
                               [score |-> slot.score, slot |-> slot.idx, at |-> cur,
                                note |-> rec.Note, placed |-> TRUE])
                        /\ idx' = idx + 1
                        /\ pc' = IF idx + 1 = Len(all_records) THEN "write" ELSE "loop"
    /\ UNCHANGED <<variant, hasNote_Date, original_ws, laterUnchanged, ws, file, all_records,
                   combined_annotated_rows>>
    /\ UNCHANGED inPlaceUnchanged

\* Rows 2.. are deleted, the combined rows written back, the workbook saved.
WriteBack ==
    /\ pc = "write"
    /\ ws' = <<ws[1]>> \o [k \in 1..Len(combined_data) |->
                             [v |-> combined_data[k], s |-> combined_styles[k].d]]
    /\ file' = ws'
    /\ pc' = "done"
    /\ UNCHANGED <<variant, hasNote_Date, original_ws, laterUnchanged, all_records, idx, history>>
    /\ UNCHANGED gemUnchanged
    /\ UNCHANGED inPlaceUnchanged

InitNew9gem == InitWith("new9gem", GemDates, BOOLEAN) \/ InitLacking("new9gem", GemDates)
NextNew9gem == Gem_Start \/ Gem_Insert \/ WriteBack
SpecNew9gem == InitNew9gem /\ [][NextNew9gem]_vars

----------------------------------------------------------------------------
(* new9gemin.py: new rows get a target date and are merged by a date sort *)

GeminDates == {NoneVal, 70, 85, 95}

\* Target date of the record at 0-based position i of the shuffled list.
AssignedNoteDate(i) ==
    calculated_target_dates(sorted_intervals[(i % Len(sorted_intervals)) + 1])

\* Sort key: the date, datetime.max.date() for a row without one.
Gemin_SortKey(date) == IF date # NoneVal THEN date ELSE Inf

\* Existing rows first, then the new rows, sorted by date (stable).
CombinedAnnotatedRows(sheet, records) ==
    LET old == [k \in 1..Len(sheet) - 1 |->
                  [date |-> parse_note_date(sheet[k + 1].v.NoteDate),
                   is_new |-> FALSE,
                   data |-> sheet[k + 1].v,
                   style |-> [d |-> sheet[k + 1].s, shared |-> FALSE]]]
        new == [j \in 1..Len(records) |->
                  [date |-> AssignedNoteDate(j - 1),
                   is_new |-> TRUE,
                   data |-> [Case |-> NoneVal, NoteDate |-> AssignedNoteDate(j - 1),
                             Note |-> records[j].Note,
                             FileName |-> records[j].FileName,
                             ExampleID |-> records[j].ExampleID,
                             Note_Date |-> NoneVal],
                   style |-> [d |-> [c \in Cols |-> EmptyStyleDict],
                              shared |-> FALSE]]]
        all == old \o new
    IN  StableSortByKey(all, [k \in 1..Len(all) |-> Gemin_SortKey(all[k].date)])

Gemin_Start ==
    /\ variant = "new9gemin" /\ pc = "start"
    /\ IF all_records = <<>>
       THEN /\ pc' = "norecords"
            /\ UNCHANGED <<all_records, combined_annotated_rows>>
       ELSE /\ pc' = "loop"
            /\ all_records' \in Shuffles(all_records)
            /\ combined_annotated_rows' = CombinedAnnotatedRows(ws, all_records')
    /\ UNCHANGED <<variant, hasNote_Date, original_ws, laterUnchanged, ws, file, idx, history>>
    /\ UNCHANGED <<scored_insertion_points, insertion_offsets, combined_data,
                   combined_styles, inserted_count>>
    /\ UNCHANGED inPlaceUnchanged

\* Style list of a new row: a deep copy of the previous row's list (sharing
\* between its dictionaries is kept by the copy), or, for the first row,
\* [{...}] * len(headers): one dictionary referenced from every column.
Gemin_NewRowStyle(hasPrev, prevStyle) ==
    SetFill(IF hasPrev THEN prevStyle
            ELSE [d |-> [c \in Cols |-> EmptyStyleDict], shared |-> TRUE],
            "Note", HighlightFill)

\* One iteration of the post-sort loop; final_data and final_styles are kept
\* in combined_data and combined_styles.
Gemin_Process ==
    /\ variant = "new9gemin" /\ pc = "loop" /\ idx < Len(combined_annotated_rows)
    /\ LET e == combined_annotated_rows[idx + 1]
           n == Len(combined_data)
       IN  IF e.is_new
           THEN /\ combined_data' =
                      Append(combined_data,
                             IF idx > 0
                             THEN [e.data EXCEPT !.Case = combined_data[n].Case]
                             ELSE e.data)
                /\ combined_styles' =
                      Append(WriteThrough(combined_styles, DeepCopyAliases(n),
                                          "Note", HighlightFill),
                             Gemin_NewRowStyle(idx > 0,
                                 IF idx > 0 THEN combined_styles[n] ELSE e.style))
           ELSE /\ combined_data' = Append(combined_data, e.data)
                /\ combined_styles' = Append(combined_styles, e.style)
    /\ idx' = idx + 1
    /\ pc' = IF idx + 1 = Len(combined_annotated_rows) THEN "write" ELSE "loop"
    /\ UNCHANGED <<variant, hasNote_Date, original_ws, laterUnchanged, ws, file, all_records, history>>
    /\ UNCHANGED <<scored_insertion_points, insertion_offsets, inserted_count,
                   combined_annotated_rows>>
    /\ UNCHANGED inPlaceUnchanged

InitNew9gemin == InitWith("new9gemin", GeminDates, {FALSE})
NextNew9gemin == Gemin_Start \/ Gemin_Process \/ WriteBack
SpecNew9gemin == InitNew9gemin /\ [][NextNew9gemin]_vars

----------------------------------------------------------------------------
(* new10.py: every record goes above the row with the latest eligible date *)

TenDates == {NoneVal, 30, 40, 60}

\* Mutant: a row whose date equals the best date so far replaces the best row.
RECURSIVE BestRowFrom_LastTie(_, _, _, _)
BestRowFrom_LastTie(sheet, row, best_so_far, best_date) ==
    IF row > Len(sheet) THEN best_so_far
    ELSE LET date_val == parse_note_date(sheet[row].v.NoteDate)
         IN  IF /\ date_val # NoneVal /\ date_val <= threshold_date
                /\ (best_date = NoneVal \/ date_val >= best_date)
             THEN BestRowFrom_LastTie(sheet, row + 1, row, date_val)
             ELSE BestRowFrom_LastTie(sheet, row + 1, best_so_far, best_date)

\* The scan for the best row, from sheet row `row` to max_row.
RECURSIVE BestRowFrom(_, _, _, _)
BestRowFrom(sheet, row, best_so_far, best_date) ==
    IF row > Len(sheet) THEN best_so_far
    ELSE LET date_val == parse_note_date(sheet[row].v.NoteDate)
         IN  IF /\ date_val # NoneVal /\ date_val <= threshold_date
                /\ (best_date = NoneVal \/ date_val > best_date)
             THEN BestRowFrom(sheet, row + 1, row, date_val)
             ELSE BestRowFrom(sheet, row + 1, best_so_far, best_date)

BestRow(sheet) == BestRowFrom(sheet, 2, NoneVal, NoneVal)

Ten_Start ==
    /\ variant = "new10" /\ pc = "start"
    /\ IF all_records = <<>>
       THEN pc' = "norecords" /\ UNCHANGED <<all_records, best_row>>
       ELSE IF BestRow(ws) = NoneVal
       THEN pc' = "noeligible" /\ UNCHANGED <<all_records, best_row>>
       ELSE /\ pc' = "loop"
            /\ best_row' = BestRow(ws)
            /\ all_records' \in Shuffles(all_records)
    /\ UNCHANGED <<variant, hasNote_Date, original_ws, ws, file, idx, history,
                   eligible_indices, style_api, notesVars, pickVars>>
    /\ UNCHANGED inPlaceUnchanged
    /\ UNCHANGED gemUnchanged

\* best_row is never moved: every record is inserted at the same sheet row.
Ten_Insert ==
    /\ variant = "new10" /\ pc = "loop" /\ idx < Len(all_records)
    /\ ws' = InsertAt(ws, best_row,
                      InPlaceNewRow(ws[best_row - 1], all_records[idx + 1], 0))
    /\ history' = Append(history, [at |-> best_row, below |-> ws[best_row]])
    /\ idx' = idx + 1
    /\ pc' = IF idx + 1 = Len(all_records) THEN "save" ELSE "loop"
    /\ UNCHANGED <<variant, hasNote_Date, original_ws, file, all_records,
                   laterUnchanged>>
    /\ UNCHANGED inPlaceUnchanged
    /\ UNCHANGED gemUnchanged

InitNew10 == InitWith("new10", TenDates, {FALSE})

\* The scripts that copy Case and Note Date from the sheet row above.
InitCopyAbove == InitNew6po \/ InitNew7to \/ InitNew10
NextCopyAbove ==
    \/ Po_Start \/ Po_Insert
    \/ To_Start \/ To_Insert
    \/ Ten_Start \/ Ten_Insert
    \/ SaveWorkbook
SpecCopyAbove == InitCopyAbove /\ [][NextCopyAbove]_vars

----------------------------------------------------------------------------
(* ap1log.py, apt1biased.py: insert_notes, the 45-day cutoff keyed by case *)
(*                                                                         *)
(* Rows of the Note Activity sheet are [v |-> [Case, NoteDate, Note,       *)
(* example_id, bias]].  A Case cell holds the number c or the text of the  *)
(* number, CaseText(c).  A Note Date cell holds a datetime d or the text   *)
(* strftime wrote for it, strftime(d).                                     *)

CaseText(c) == 1000 + c

\* target_date.strftime("%Y-%m-%d")
strftime(d) == 10000 + d

\* pd.to_datetime of a cell: None for an empty cell.
pd_to_datetime(cell_value) ==
    IF cell_value >= strftime(0) THEN cell_value - strftime(0)
    ELSE IF cell_value >= 1 THEN cell_value
    ELSE NoneVal

\* int(c) for a cell that str(c).isdigit() accepts: a number or its text.
IntOfCase(c) == IF c >= CaseText(0) THEN c - CaseText(0) ELSE c

NotesRowKinds == {<<7, 40>>, <<7, 60>>, <<7, NoneVal>>, <<8, 60>>, <<CaseText(7), 40>>}

BlankNotesRow ==
    [v |-> [Case |-> NoneVal, NoteDate |-> NoneVal, Note |-> NoneVal,
            example_id |-> NoneVal, bias |-> NoneVal]]

NotesSheet(kinds) ==
    <<[v |-> [Case |-> HeaderLabel, NoteDate |-> HeaderLabel, Note |-> HeaderLabel,
              example_id |-> NoneVal, bias |-> NoneVal]]>> \o
    [k \in 1..Len(kinds) |->
       [v |-> [Case |-> kinds[k][1], NoteDate |-> kinds[k][2], Note |-> 100 + k,
               example_id |-> NoneVal, bias |-> NoneVal]]]

\* Record j; in ap1log it is read from a file named for a case: the first two
\* records from a file of case 7, the others from a file of case 8.
NotesRecordsOf(n) ==
    [j \in 1..n |-> [Note |-> 200 + j, example_id |-> 400 + j, bias |-> 300,
                     file_case |-> IF j <= 2 THEN 7 ELSE 8]]

\* Series.unique(): first occurrences, in order.
RECURSIVE Unique(_)
Unique(seq) ==
    IF seq = <<>> THEN <<>>
    ELSE <<Head(seq)>> \o Unique(SelectSeq(Tail(seq), LAMBDA x : x # Head(seq)))

\* note_df["Case"].dropna().unique(), then int(c) of the digit values;
\* CASE_SELECTION is "all".
SelectedCases(sheet) ==
    LET raw == [k \in 1..Len(sheet) - 1 |-> sheet[k + 1].v.Case]
        uniq == Unique(SelectSeq(raw, LAMBDA c : c # NoneVal))
        digits == SelectSeq(uniq, LAMBDA c : c >= 0)
    IN  [k \in 1..Len(digits) |-> IntOfCase(digits[k])]

\* ensure_columns(ws_notes, ["example_id", "bias"])
ensure_columns(sheet) ==
    [sheet EXCEPT ![1].v.example_id = HeaderLabel, ![1].v.bias = HeaderLabel]

\* The rows whose Case cell equals case_no; [(max_row + 1, None)] if none.
CaseRows(sheet, case_no) ==
    LET found == SelectSeq([i \in 1..Len(sheet) |-> i],
                           LAMBDA r : r >= 2 /\ sheet[r].v.Case = case_no)
    IN  IF found = <<>> THEN <<<<Len(sheet) + 1, NoneVal>>>>
        ELSE [i \in 1..Len(found) |-> <<found[i], sheet[found[i]].v.NoteDate>>]

\* First listed row dated on or after the target, else one past the last
\* listed row.  A cell without a date raises inside the try and is skipped.
InsertAtOf(rows, target_date) ==
    LET hits == {i \in 1..Len(rows) :
                   /\ pd_to_datetime(rows[i][2]) # NoneVal
                   /\ pd_to_datetime(rows[i][2]) >= target_date}
    IN  IF hits = {} THEN rows[Len(rows)][1] + 1 ELSE rows[Min(hits)][1]

\* ws.insert_rows(r), then the cells of row r are written: rows between the
\* old max_row and r stay empty.
InsertRowsAndWrite(sheet, r, row, blank) ==
    IF r <= Len(sheet) + 1 THEN InsertAt(sheet, r, row)
    ELSE sheet \o [k \in 1..(r - Len(sheet) - 1) |-> blank] \o <<row>>

\* The records the case's batch samples from.
RecordsForCase(case_no) ==
    IF variant = "ap1log"
    THEN SelectSeq(all_records, LAMBDA rec : rec.file_case = case_no)
    ELSE all_records

\* target_date = q_date - timedelta(days=45) keeps the time of day of the
\* Queue In Date, while the Note Dates of the sheet and the text strftime
\* writes are whole days: a Note Date is on or after the target exactly when
\* it is on or after the first midnight that is not before the target.
FirstMidnight(target_day, time_of_day) == target_day + time_of_day

notesOthers == <<hasNote_Date, original_ws, file, all_records, case_queue_dates,
                 queue_time,
                 thresholdVars, pickVars, inPlaceUnchanged, gemUnchanged>>

Notes_Start ==
    /\ variant \in {"ap1log", "apt1biased"} /\ pc = "start"
    /\ selected_cases' = SelectedCases(ws)
    /\ ws' = ensure_columns(ws)
    /\ pc' = "case"
    /\ UNCHANGED <<variant, idx, case_i, case_rows, subset, history>>
    /\ UNCHANGED notesOthers

\* Head of the loop over the cases: the case is skipped, or its batch is set up.
Notes_NextCase ==
    /\ variant \in {"ap1log", "apt1biased"} /\ pc = "case"
    /\ IF case_i = Len(selected_cases)
       THEN /\ pc' = "save"
            /\ UNCHANGED <<case_i, case_rows, subset, idx, history>>
       ELSE LET case_no == selected_cases[case_i + 1]
                q_date == case_queue_dates[case_no]
            IN  IF q_date = NoneVal \/ RecordsForCase(case_no) = <<>>
                THEN /\ case_i' = case_i + 1
                     /\ pc' = "case"
                     /\ UNCHANGED <<case_rows, subset, idx, history>>
                ELSE /\ subset' \in Shuffles(RecordsForCase(case_no))
                     /\ case_rows' = CaseRows(ws, case_no)
                     /\ idx' = 0
                     /\ pc' = "insert"
                     /\ history' = Append(history,
                            [kind |-> "case", case |-> case_no, max_row |-> Len(ws),
                             norows |-> \A r \in 2..Len(ws) : ws[r].v.Case # case_no])
                     /\ UNCHANGED case_i
    /\ UNCHANGED <<variant, ws, selected_cases>>
    /\ UNCHANGED notesOthers

Notes_Insert ==
    /\ variant \in {"ap1log", "apt1biased"} /\ pc = "insert"
    /\ LET case_no == selected_cases[case_i + 1]
           target_date == case_queue_dates[case_no] - ThresholdDays
           rec == subset[idx + 1]
           insert_at == InsertAtOf(case_rows, FirstMidnight(target_date, queue_time))
       IN  /\ ws' = InsertRowsAndWrite(ws, insert_at,
                       [v |-> [Case |-> case_no, NoteDate |-> strftime(target_date),
                               Note |-> rec.Note, example_id |-> rec.example_id,
                               bias |-> rec.bias]],
                       BlankNotesRow)
           /\ history' = Append(history,
                  [kind |-> "insert", case |-> case_no, at |-> insert_at,
                   max_row |-> Len(ws), note |-> rec.Note])
    /\ idx' = idx + 1
    /\ IF idx + 1 = Len(subset)
       THEN case_i' = case_i + 1 /\ pc' = "case"
       ELSE UNCHANGED case_i /\ pc' = "insert"
    /\ UNCHANGED <<variant, selected_cases, case_rows, subset>>
    /\ UNCHANGED notesOthers

InitInsertNotes ==
    /\ \E v \in {"ap1log", "apt1biased"}, m \in 0..MaxRows, n \in 0..MaxCands :
         \E kinds \in [1..m -> NotesRowKinds] :
            InitLedger(v, FALSE, NotesSheet(kinds), NotesRecordsOf(n))
    /\ selected_cases = <<>>
    /\ case_i = 0
    /\ \E q \in {NoneVal, ReferenceDay} :
         case_queue_dates = [c \in {7, 8} |-> IF c = 7 THEN q ELSE ReferenceDay]
    /\ queue_time \in {0, 1}
    /\ case_rows = <<>>
    /\ subset = <<>>
    /\ InitThresholdVars
    /\ InitPickVars

NextInsertNotes == Notes_Start \/ Notes_NextCase \/ Notes_Insert \/ SaveWorkbook
SpecInsertNotes == InitInsertNotes /\ [][NextInsertNotes]_vars

----------------------------------------------------------------------------
(* apt.py, apt1.py: insert_notes, the 45-day cutoff over the whole sheet   *)
(*                                                                         *)
(* all_records holds the sampled records in the order they are taken       *)
(* (apt.py: directory by directory; apt1.py: case by case).                *)

AptRowKinds == {<<7, 40>>, <<8, 60>>, <<7, NoneVal>>, <<8, 70>>}

\* Mutant: the new row is always appended after the last row.
FirstRowOnOrAfter_Append(sheet, target_date) == Len(sheet) + 1

\* insert_at: the first row of column B dated on or after the target, else
\* max_row + 1.  A cell without a date is skipped.
FirstRowOnOrAfter(sheet, target_date) ==
    LET hits == {r \in 2..Len(sheet) :
                   /\ pd_to_datetime(sheet[r].v.NoteDate) # NoneVal
                   /\ pd_to_datetime(sheet[r].v.NoteDate) >= target_date}
    IN  IF hits = {} THEN Len(sheet) + 1 ELSE Min(hits)

Apt_Start ==
    /\ variant \in {"apt", "apt1"} /\ pc = "start"
    /\ ws' = ensure_columns(ws)
    /\ pc' = IF all_records = <<>> THEN "save" ELSE "loop"
    /\ UNCHANGED <<variant, idx, selected_cases, case_i, case_rows, subset, history>>
    /\ UNCHANGED notesOthers

\* One record of the loop: skipped when its case has no Queue In Date (in
\* apt1.py also when the case is not among the cases of the sheet).
Apt_Insert ==
    /\ variant \in {"apt", "apt1"} /\ pc = "loop"
    /\ LET rec == all_records[idx + 1]
           case_no == rec.file_case
           q_date == case_queue_dates[case_no]
           target_date == q_date - ThresholdDays
           insert_at == FirstRowOnOrAfter(ws, FirstMidnight(target_date, queue_time))
       IN  IF \/ q_date = NoneVal
              \/ variant = "apt1" /\ case_no \notin Range(SelectedCases(original_ws))
           THEN UNCHANGED <<ws, history>>
           ELSE /\ ws' = InsertAt(ws, insert_at,
                            [v |-> [Case |-> case_no,
                                    NoteDate |-> strftime(target_date),
                                    Note |-> rec.Note, example_id |-> rec.example_id,
                                    bias |-> rec.bias]])
                /\ history' = Append(history, [at |-> insert_at, note |-> rec.Note])
    /\ idx' = idx + 1
    /\ pc' = IF idx + 1 = Len(all_records) THEN "save" ELSE "loop"
    /\ UNCHANGED <<variant, selected_cases, case_i, case_rows, subset>>
    /\ UNCHANGED notesOthers

InitApt ==
    /\ \E v \in {"apt", "apt1"}, m \in 0..MaxRows, n \in 0..MaxCands :
         \E kinds \in [1..m -> AptRowKinds], f \in [1..n -> {7, 8}] :
            InitLedger(v, FALSE, NotesSheet(kinds),
                       [j \in 1..n |-> [NotesRecordsOf(n)[j] EXCEPT !.file_case = f[j]]])
    /\ \E q \in {NoneVal, ReferenceDay} :
         case_queue_dates = [c \in {7, 8} |-> IF c = 7 THEN q ELSE ReferenceDay + 10]
    /\ queue_time \in {0, 1}
    /\ selected_cases = <<>> /\ case_i = 0 /\ case_rows = <<>> /\ subset = <<>>
    /\ InitThresholdVars
    /\ InitPickVars

SpecApt == InitApt /\ [][Apt_Start \/ Apt_Insert \/ SaveWorkbook]_vars

----------------------------------------------------------------------------
(* apt2ny.py, aptlat.py: pick_insertion_date *)

QueueDay == 200
PickDates == {NoneVal, 50, 100, 150, 180}
Todays == {300, 301}

\* Series.dropna().sort_values() as a list
sort_values(dates) ==
    LET dated == SelectSeq(dates, LAMBDA d : d # NoneVal)
    IN  StableSortByKey(dated, dated)

\* get_case_block: the case's Note Dates sorted, NaT last
get_case_block(dates) ==
    StableSortByKey(dates, [k \in 1..Len(dates) |-> Gemin_SortKey(dates[k])])

\* The value returned; `fallback` (queue date - 45 days) is computed after the
\* window test and then not used.
pick_insertion_date(block, q_date, today) ==
    IF q_date = NoneVal THEN today
    ELSE LET start_date == q_date - WindowDays
             valid_dates ==
                 sort_values(SelectSeq(block,
                     LAMBDA d : d # NoneVal /\ d >= start_date /\ d <= q_date))
             all_dates == sort_values(block)
         IN  IF valid_dates # <<>>
             THEN valid_dates[(Len(valid_dates) \div 2) + 1]
             ELSE IF all_dates # <<>>
             THEN all_dates[(Len(all_dates) \div 2) + 1]
             ELSE today

\* insert_date = pick_insertion_date(case_block, q_date)
Pick ==
    /\ variant \in {"apt2ny", "aptlat"} /\ pc = "start"
    /\ \E today \in Todays :
         insert_date' = pick_insertion_date(case_block, queue_date, today)
    /\ pc' = "picked"
    /\ UNCHANGED <<variant, hasNote_Date, original_ws, ws, file, all_records, idx,
                   history, case_block, queue_date, cell_input, parsed,
                   variant_block, all_variant_rows,
                   thresholdVars, notesVars>>
    /\ UNCHANGED inPlaceUnchanged
    /\ UNCHANGED gemUnchanged

InitPick ==
    /\ \E v \in {"apt2ny", "aptlat"} :
         InitLedger(v, FALSE, NotesSheet(<<>>), NotesRecordsOf(0))
    /\ \E dates \in DateSeqs(PickDates) : case_block = get_case_block(dates)
    /\ queue_date \in {NoneVal, QueueDay}
    /\ insert_date = NoneVal
    /\ cell_input = NoneVal /\ parsed = NoneVal
    /\ variant_block = <<>> /\ all_variant_rows = <<>>
    /\ InitThresholdVars
    /\ InitNotesVars

SpecPick == InitPick /\ [][Pick]_vars

----------------------------------------------------------------------------
(* date.py: pick_insertion_date *)

DateNoteDays == {NoneVal, 180, 197, 199, 203}

\* The dates pick_insertion_date of date.py can return (random.randint draws
\* the offset); `.days` of two dates is their difference.
Date_pick_insertion_date(block, q_date, today) ==
    LET note_dates == sort_values(block)
        last_note_date == note_dates[Len(note_dates)]
        delta_days == q_date - last_note_date
    IN  IF note_dates = <<>> THEN {today}
        ELSE IF q_date # NoneVal
        THEN IF last_note_date < q_date
             THEN IF delta_days > 3
                  THEN {last_note_date + offset :
                          offset \in 1..Min({10, delta_days - 1})}
                  ELSE {q_date - 1}
             ELSE {last_note_date + 1}
        ELSE {last_note_date + offset : offset \in 2..7}

Date_Pick ==
    /\ variant = "date" /\ pc = "start"
    /\ \E today \in Todays :
         insert_date' \in Date_pick_insertion_date(case_block, queue_date, today)
    /\ pc' = "picked"
    /\ UNCHANGED <<variant, hasNote_Date, original_ws, ws, file, all_records, idx,
                   history, case_block, queue_date, cell_input, parsed,
                   variant_block, all_variant_rows,
                   thresholdVars, notesVars>>
    /\ UNCHANGED inPlaceUnchanged
    /\ UNCHANGED gemUnchanged

InitDate ==
    /\ InitLedger("date", FALSE, NotesSheet(<<>>), NotesRecordsOf(0))
    /\ case_block \in DateSeqs(DateNoteDays)
    /\ queue_date \in {NoneVal, QueueDay}
    /\ insert_date = NoneVal
    /\ cell_input = NoneVal /\ parsed = NoneVal
    /\ variant_block = <<>> /\ all_variant_rows = <<>>
    /\ InitThresholdVars
    /\ InitNotesVars

SpecDate == InitDate /\ [][Date_Pick]_vars

----------------------------------------------------------------------------
(* apt2ny.py, aptlat.py, keepexample.py: create_case_variants              *)
(*                                                                         *)
(* ws is the Note Activity sheet (note_df, and the workbook apt2ny reloads *)
(* for every variant; it is never saved).  all_records is the sample of    *)
(* one bias.  A block row is [Case, NoteDate, Note]; an emitted row adds   *)
(* the case it was emitted for and the Variant number.  pick_insertion_date*)
(* of keepexample is the function of date.py.                              *)

\* get_case_block: the rows whose Case equals case_no, sorted by Note Date,
\* NaT last.
CaseBlock(sheet, case_no) ==
    LET found == SelectSeq([k \in 1..Len(sheet) - 1 |-> sheet[k + 1].v],
                           LAMBDA v : v.Case = case_no)
        rows == [k \in 1..Len(found) |->
                   [Case |-> found[k].Case,
                    NoteDate |-> pd_to_datetime(found[k].NoteDate),
                    Note |-> found[k].Note]]
    IN  StableSortByKey(rows, [k \in 1..Len(rows) |-> Gemin_SortKey(rows[k].NoteDate)])

\* Head of the loop over the cases: insert_date is picked once per case
\* (apt2ny, aptlat) and the block of the bias starts as a copy of the case's.
Variants_NextCase ==
    /\ variant \in {"apt2ny_variants", "aptlat_variants", "keepexample"}
    /\ pc \in {"start", "case"}
    /\ IF case_i = Len(SelectedCases(ws)) \/ all_records = <<>>
       THEN pc' = "done" /\ UNCHANGED <<insert_date, variant_block, idx>>
       ELSE LET case_no == SelectedCases(ws)[case_i + 1]
                block == CaseBlock(ws, case_no)
                dates == [k \in 1..Len(block) |-> block[k].NoteDate]
            IN  /\ \E today \in Todays :
                     insert_date' =
                         IF variant = "keepexample" THEN NoneVal
                         ELSE pick_insertion_date(dates, case_queue_dates[case_no],
                                                  today)
                /\ variant_block' = block
                /\ idx' = 0
                /\ pc' = "variant"
    /\ UNCHANGED <<variant, hasNote_Date, original_ws, ws, file, all_records, history,
                   case_block, queue_date, cell_input, parsed, all_variant_rows,
                   thresholdVars, notesVars>>
    /\ UNCHANGED inPlaceUnchanged
    /\ UNCHANGED gemUnchanged

\* One variant: the new note is added and the block is emitted.
Variants_Emit ==
    /\ variant \in {"apt2ny_variants", "aptlat_variants", "keepexample"}
    /\ pc = "variant"
    /\ LET case_no == SelectedCases(ws)[case_i + 1]
           rec == all_records[idx + 1]
           \* keepexample: variant_block = case_block.copy() for every record
           base == IF variant = "keepexample" THEN CaseBlock(ws, case_no)
                   ELSE variant_block
           picks == IF variant = "keepexample"
                    THEN UNION {Date_pick_insertion_date(
                                    [k \in 1..Len(base) |-> base[k].NoteDate],
                                    case_queue_dates[case_no], today) :
                                today \in Todays}
                    ELSE {insert_date}
       IN  \E date \in picks :
             LET new_note_row ==
                     [Case |-> IF variant = "keepexample"
                               THEN CaseText(case_no) + rec.example_id
                               ELSE case_no,
                      NoteDate |-> pd_to_datetime(strftime(date)),
                      Note |-> rec.Note]
                 added == base \o <<new_note_row>>
                 sorted == StableSortByKey(added,
                               [k \in 1..Len(added) |-> Gemin_SortKey(added[k].NoteDate)])
                 \* apt2ny: the reloaded sheet, the note inserted before the
                 \* first row of the case dated on or after insert_date
                 hits == {r \in 2..Len(ws) :
                            /\ ws[r].v.Case = case_no
                            /\ pd_to_datetime(ws[r].v.NoteDate) # NoneVal
                            /\ pd_to_datetime(ws[r].v.NoteDate) >= date}
                 insert_at == IF hits = {} THEN Len(ws) + 1 ELSE Min(hits)
                 sheet_rows ==
                     InsertAt([k \in 1..Len(ws) - 1 |->
                                 [Case |-> ws[k + 1].v.Case,
                                  NoteDate |-> ws[k + 1].v.NoteDate,
                                  Note |-> ws[k + 1].v.Note]],
                              insert_at - 1,
                              [new_note_row EXCEPT !.NoteDate = strftime(date)])
                 emitted == IF variant = "apt2ny_variants" THEN sheet_rows ELSE sorted
             IN  /\ variant_block' = sorted
                 /\ all_variant_rows' =
                        all_variant_rows \o
                        [k \in 1..Len(emitted) |->
                           [for_case |-> case_no, Variant |-> idx + 1,
                            Case |-> emitted[k].Case, NoteDate |-> emitted[k].NoteDate,
                            Note |-> emitted[k].Note]]
    /\ idx' = idx + 1
    /\ IF idx + 1 = Len(all_records)
       THEN case_i' = case_i + 1 /\ pc' = "case"
       ELSE UNCHANGED case_i /\ pc' = "variant"
    /\ UNCHANGED <<variant, hasNote_Date, original_ws, ws, file, all_records, history,
                   case_block, queue_date, insert_date, cell_input, parsed,
                   thresholdVars, selected_cases, case_queue_dates, queue_time,
                   case_rows, subset>>
    /\ UNCHANGED inPlaceUnchanged
    /\ UNCHANGED gemUnchanged

\* Every case has a Queue In Date, three days after the dated notes.
InitVariants ==
    /\ \E v \in {"apt2ny_variants", "aptlat_variants", "keepexample"},
          m \in 0..MaxRows, n \in 0..MaxCands :
         \E kinds \in [1..m -> {<<7, 60>>, <<7, NoneVal>>, <<8, 60>>}] :
            InitLedger(v, FALSE, NotesSheet(kinds), NotesRecordsOf(n))
    /\ selected_cases = <<>> /\ case_i = 0 /\ case_rows = <<>> /\ subset = <<>>
    /\ case_queue_dates = [c \in {7, 8} |-> 63]
    /\ queue_time = 0
    /\ InitThresholdVars
    /\ InitPickVars

SpecVariants == InitVariants /\ [][Variants_NextCase \/ Variants_Emit]_vars

----------------------------------------------------------------------------

(* new9gem.py: parse_note_date                                             *)
(*                                                                         *)
(* A cell value is a record [kind, n, lead, toks]:                         *)
(*   kind "None"      an empty cell                                        *)
(*   kind "datetime"  a datetime; n is the proleptic ordinal of its day    *)
(*   kind "number"    an int or float n;  "nan", "inf": those floats       *)
(*   kind "str"       text: optional surrounding blanks (lead), then the   *)
(*                    tokens toks; a token [t, w, v] is a run of w digits  *)
(*                    reading v (t = "d"), a "/" or a "-", or other text   *)
(* A date is the proleptic Gregorian ordinal of its day.  The outcome of a *)
(* call is [tag, ordinal] with tag "date", "None" or "raise".              *)

ExcelEpochOrdinal == 693594     \* datetime(1899, 12, 30).toordinal()
MaxOrdinal == 3652059           \* date.max.toordinal()

Digits(w, v) == [t |-> "d", w |-> w, v |-> v]
Sep(c) == [t |-> c, w |-> 0, v |-> 0]

\* The cell values parse_note_date is called with.
CellValues ==
    LET FieldTokens == {Digits(1, 2), Digits(2, 2), Digits(2, 13), Digits(2, 29),
                        Digits(2, 31), Digits(4, 2023), Digits(4, 2024)}
        SepTokens == {Sep("/"), Sep("-")}
    IN  {[kind |-> k, n |-> 0, lead |-> FALSE, toks |-> <<>>] :
            k \in {"None", "nan", "inf"}}
        \cup {[kind |-> "datetime", n |-> 739000, lead |-> FALSE, toks |-> <<>>]}
        \cup {[kind |-> "number", n |-> n, lead |-> FALSE, toks |-> <<>>] :
                n \in {0, 1, 45000, 0 - 700000, 3000000}}
        \cup {[kind |-> "str", n |-> 0, lead |-> l, toks |-> s] :
                l \in BOOLEAN, s \in {<<>>, <<Sep("x")>>, <<Digits(4, 2024)>>}}
        \cup {[kind |-> "str", n |-> 0, lead |-> l,
               toks |-> <<f1, s1, f2, s2, f3>> \o tail] :
                l \in BOOLEAN, f1 \in FieldTokens, f2 \in FieldTokens,
                f3 \in FieldTokens, s1 \in SepTokens, s2 \in SepTokens,
                tail \in {<<>>, <<Sep("x")>>}}

\* `not cell_value`: None, the number 0 and the empty string are falsy.
Falsy(cv) ==
    \/ cv.kind = "None"
    \/ cv.kind = "number" /\ cv.n = 0
    \/ cv.kind = "str" /\ cv.toks = <<>> /\ ~cv.lead

DaysInMonth(Y, m) ==
    LET IsLeap == Y % 4 = 0 /\ (Y % 100 # 0 \/ Y % 400 = 0)
    IN  IF m = 2 THEN (IF IsLeap THEN 29 ELSE 28)
        ELSE IF m \in {4, 6, 9, 11} THEN 30 ELSE 31

\* date(Y, m, d).toordinal()
toordinal(Y, m, d) ==
    LET DaysBeforeMonth ==
            <<0, 31, 59, 90, 120, 151, 181, 212, 243, 273, 304, 334>>[m]
            + (IF m > 2 /\ DaysInMonth(Y, 2) = 29 THEN 1 ELSE 0)
    IN  365 * (Y - 1) + ((Y - 1) \div 4) - ((Y - 1) \div 100)
        + ((Y - 1) \div 400) + DaysBeforeMonth + d

\* The try body of lines 33-34: the date, or the exception raised by int()
\* (nan, inf) or by fromordinal() (ordinal out of range).
FromExcelNumber(cv) ==
    IF cv.kind = "nan" THEN [exc |-> "ValueError", ordinal |-> 0]
    ELSE IF cv.kind = "inf" THEN [exc |-> "OverflowError", ordinal |-> 0]
    ELSE IF ExcelEpochOrdinal + cv.n \in 1..MaxOrdinal
         THEN [exc |-> "none", ordinal |-> ExcelEpochOrdinal + cv.n]
         ELSE [exc |-> "ValueError", ordinal |-> 0]

\* Mutant: the handler of line 35 catches ValueError only.
except_Exception_ValueErrorOnly(exc) == exc = "ValueError"

\* except Exception (line 35)
except_Exception(exc) == exc \in {"ValueError", "OverflowError", "TypeError"}

\* A directive matches a whole run of digits: %m 1 or 2 digits reading 1..12,
\* %d 1 or 2 digits reading 1..31, %Y exactly 4 digits, %y exactly 2.
MatchesDirective(dir, tok) ==
    /\ tok.t = "d"
    /\ CASE dir = "m" -> tok.w <= 2 /\ tok.v \in 1..12
         [] dir = "d" -> tok.w <= 2 /\ tok.v \in 1..31
         [] dir = "Y" -> tok.w = 4
         [] dir = "y" -> tok.w = 2

\* The formats of line 39, as <<directive, separator, directive, separator,
\* directive>>.
Formats == << <<"m", "/", "d", "/", "Y">>, <<"m", "-", "d", "-", "y">>,
              <<"Y", "-", "m", "-", "d">>, <<"m", "/", "d", "/", "y">> >>

\* datetime.strptime(s_value, fmt).date(): the date, or ValueError when the
\* text does not match the format or names no calendar day.
strptime(toks, fmt) ==
    LET fieldOf(dir) == toks[CHOOSE i \in {1, 3, 5} : fmt[i] = dir].v
        Y == IF "Y" \in {fmt[1], fmt[3], fmt[5]} THEN fieldOf("Y")
             ELSE IF fieldOf("y") <= 68 THEN 2000 + fieldOf("y")
             ELSE 1900 + fieldOf("y")
        m == fieldOf("m")
        d == fieldOf("d")
    IN  IF /\ Len(toks) = 5
           /\ \A i \in {1, 3, 5} : MatchesDirective(fmt[i], toks[i])
           /\ \A i \in {2, 4} : toks[i].t = fmt[i]
           /\ Y >= 1
           /\ d <= DaysInMonth(Y, m)
        THEN [exc |-> "none", ordinal |-> toordinal(Y, m, d)]
        ELSE [exc |-> "ValueError", ordinal |-> 0]

\* The loop of lines 39-43 from format k on; `except ValueError: continue`.
RECURSIVE TryFormats(_, _)
TryFormats(toks, k) ==
    IF k > Len(Formats) THEN [tag |-> "None", ordinal |-> 0]
    ELSE LET r == strptime(toks, Formats[k])
         IN  IF r.exc = "none" THEN [tag |-> "date", ordinal |-> r.ordinal]
             ELSE IF r.exc = "ValueError" THEN TryFormats(toks, k + 1)
             ELSE [tag |-> "raise", ordinal |-> 0]

\* str(cell_value).strip() of a value that is not text matches no format:
\* the text of a number has no "/" or "-" between three runs of digits.
Gem_parse_note_date(cv) ==
    IF Falsy(cv) THEN [tag |-> "None", ordinal |-> 0]
    ELSE IF cv.kind = "datetime" THEN [tag |-> "date", ordinal |-> cv.n]
    ELSE IF cv.kind \in {"number", "nan", "inf"}
    THEN LET r == FromExcelNumber(cv)
         IN  IF r.exc = "none" THEN [tag |-> "date", ordinal |-> r.ordinal]
             ELSE IF except_Exception(r.exc) THEN TryFormats(<<>>, 1)
             ELSE [tag |-> "raise", ordinal |-> 0]
    ELSE TryFormats(cv.toks, 1)

Parse ==
    /\ variant = "parse_note_date" /\ pc = "start"
    /\ parsed' = Gem_parse_note_date(cell_input)
    /\ pc' = "parsed"
    /\ UNCHANGED <<variant, hasNote_Date, original_ws, ws, file, all_records, idx,
                   history, cell_input, case_block, queue_date, insert_date,
                   variant_block, all_variant_rows,
                   thresholdVars, notesVars>>
    /\ UNCHANGED inPlaceUnchanged
    /\ UNCHANGED gemUnchanged

InitParse ==
    /\ InitLedger("parse_note_date", FALSE, NotesSheet(<<>>), NotesRecordsOf(0))
    /\ cell_input \in CellValues
    /\ parsed = NoneVal
    /\ case_block = <<>> /\ queue_date = NoneVal /\ insert_date = NoneVal
    /\ variant_block = <<>> /\ all_variant_rows = <<>>
    /\ InitThresholdVars
    /\ InitNotesVars

SpecParse == InitParse /\ [][Parse]_vars

----------------------------------------------------------------------------
(* new5high.py, new6up.py: a new sheet is built from the active sheet      *)
(*                                                                         *)
(* ws is old_sheet until the new sheet is created, then the new sheet;     *)
(* file is then the new sheet as saved.  Indices are 0-based.              *)

\* A row left by an earlier run: the text of the first JSONL record, with its
\* file name and example id.
EarlierRunRow(row) ==
    [row EXCEPT !.v.Note = JsonlRecord(1).Note,
                !.v.FileName = JsonlRecord(1).FileName,
                !.v.ExampleID = JsonlRecord(1).ExampleID]

\* Indices of the rows whose Note Date parses and is on or before the threshold.
EligibleIndices(rows) ==
    SelectSeq([i \in 1..Len(rows) |-> i - 1],
              LAMBDA i : /\ parse_note_date(rows[i + 1].NoteDate) # NoneVal
                         /\ parse_note_date(rows[i + 1].NoteDate) <= threshold_date)

\* [i+1 if i >= insert_idx else i for i in eligible_indices]
ShiftIndices(indices, insert_idx) ==
    [k \in 1..Len(indices) |->
       IF indices[k] >= insert_idx THEN indices[k] + 1 ELSE indices[k]]

\* [rec.get(h, None) for h in headers]
NewRowValues(rec, case, note_date) ==
    [Case |-> case, NoteDate |-> note_date, Note |-> rec.Note,
     FileName |-> rec.FileName, ExampleID |-> rec.ExampleID, Note_Date |-> NoneVal]

\* [None] * len(headers): no cell style
NoStyleRow == [d |-> [c \in Cols |-> EmptyStyleDict], shared |-> FALSE]

highOthers == <<variant, hasNote_Date, original_ws, all_records, best_row, style_api,
                notesVars, pickVars, inPlaceUnchanged, scored_insertion_points,
                insertion_offsets, inserted_count, combined_annotated_rows>>

High_Start ==
    /\ variant \in {"new5high", "new6up"} /\ pc = "start"
    /\ IF all_records = <<>>
       THEN /\ pc' = "norecords"
            /\ UNCHANGED <<eligible_indices, combined_data, combined_styles>>
       ELSE LET existing_data == [k \in 1..Len(ws) - 1 |-> ws[k + 1].v]
                found == EligibleIndices(existing_data)
            IN  /\ pc' = "loop"
                /\ eligible_indices' =
                       IF variant = "new6up"
                       THEN SelectSeq(found, LAMBDA i : i >= 1)
                       ELSE found
                /\ combined_data' = existing_data
                /\ combined_styles' =
                       [k \in 1..Len(ws) - 1 |-> [d |-> ws[k + 1].s, shared |-> FALSE]]
    /\ UNCHANGED <<ws, file, idx, history>>
    /\ UNCHANGED highOthers

High_Insert ==
    /\ variant \in {"new5high", "new6up"} /\ pc = "loop" /\ idx < Len(all_records)
    /\ \E insert_idx \in IF eligible_indices # <<>> THEN Range(eligible_indices)
                        ELSE {Len(combined_data)} :
         LET rec == all_records[idx + 1]
             copies == variant = "new6up" /\ insert_idx > 0
         IN  /\ combined_data' =
                    InsertAt(combined_data, insert_idx + 1,
                        NewRowValues(rec,
                            IF copies THEN combined_data[insert_idx].Case ELSE NoneVal,
                            IF copies THEN combined_data[insert_idx].NoteDate
                            ELSE NoneVal))
             /\ combined_styles' =
                    InsertAt(combined_styles, insert_idx + 1,
                        IF insert_idx > 0 THEN combined_styles[insert_idx]
                        ELSE NoStyleRow)
             /\ eligible_indices' = ShiftIndices(eligible_indices, insert_idx)
             /\ history' = Append(history, [at |-> insert_idx])
    /\ idx' = idx + 1
    /\ pc' = IF idx + 1 = Len(all_records) THEN "newsheet" ELSE "loop"
    /\ UNCHANGED <<ws, file>>
    /\ UNCHANGED highOthers

\* The Note cell of a row is highlighted when the row has a File Name and
\* its Note is the Note of some JSONL record.
HighlightTest(row_values, records) ==
    /\ row_values.FileName # NoneVal
    /\ row_values.Note \in {records[j].Note : j \in 1..Len(records)}

\* The new sheet is created, headers and rows written, the workbook saved.
High_Write ==
    /\ variant \in {"new5high", "new6up"} /\ pc = "newsheet"
    /\ ws' = <<[v |-> EnsureHeaders(ws)[1].v, s |-> [c \in Cols |-> EmptyStyleDict]]>>
             \o [k \in 1..Len(combined_data) |->
                   [v |-> combined_data[k],
                    s |-> IF HighlightTest(combined_data[k], all_records)
                          THEN SetFill(combined_styles[k], "Note", HighlightFill).d
                          ELSE combined_styles[k].d]]
    /\ file' = ws'
    /\ pc' = "done"
    /\ UNCHANGED <<idx, history, eligible_indices, combined_data, combined_styles>>
    /\ UNCHANGED highOthers

InitHigh ==
    /\ \E v \in {"new5high", "new6up"}, dates \in DateSeqs(InPlaceDates),
          n \in 0..MaxCands :
         \E earlier \in 0..Len(dates) :
            InitLedger(v, FALSE,
                [k \in 1..Len(dates) + 1 |->
                   IF earlier > 0 /\ k = earlier + 1
                   THEN EarlierRunRow(SheetOf(dates, FALSE)[k])
                   ELSE SheetOf(dates, FALSE)[k]],
                RecordsOf(n))
    /\ InitThresholdVars
    /\ InitNotesVars
    /\ InitPickVars

----------------------------------------------------------------------------
(* new8gem.py: threshold insertion in memory, written back to the sheet *)

Gem8_Start ==
    /\ variant = "new8gem" /\ pc = "start"
    /\ IF all_records = <<>>
       THEN /\ pc' = "norecords"
            /\ UNCHANGED <<ws, all_records, eligible_indices, combined_data,
                           combined_styles>>
       ELSE LET existing_rows_data == [k \in 1..Len(ws) - 1 |-> ws[k + 1].v]
                found == EligibleIndices(existing_rows_data)
            IN  /\ pc' = "loop"
                /\ ws' = EnsureHeaders(ws)
                /\ eligible_indices' =
                       IF found = <<>> THEN <<Len(existing_rows_data)>> ELSE found
                /\ all_records' \in Shuffles(all_records)
                /\ combined_data' = existing_rows_data
                /\ combined_styles' =
                       [k \in 1..Len(ws) - 1 |-> [d |-> ws[k + 1].s, shared |-> FALSE]]
    /\ UNCHANGED <<variant, hasNote_Date, original_ws, file, idx, history, best_row,
                   style_api, notesVars, pickVars, scored_insertion_points,
                   insertion_offsets, inserted_count, combined_annotated_rows>>
    /\ UNCHANGED inPlaceUnchanged

\* One record.  The style of the new Note cell is made through
\* openpyxl.styles.Style() or by setting .fill on a copied cell._style; where
\* the installed openpyxl has neither, the script dies with AttributeError.
Gem8_Insert ==
    /\ variant = "new8gem" /\ pc = "loop" /\ idx < Len(all_records)
    /\ \E insert_pos_in_combined \in Range(eligible_indices) :
         LET rec == all_records[idx + 1]
             above == insert_pos_in_combined > 0
         IN  IF ~style_api
             THEN /\ pc' = "crashed"
                  /\ UNCHANGED <<idx, combined_data, combined_styles,
                                 eligible_indices, history>>
             ELSE /\ combined_data' =
                         InsertAt(combined_data, insert_pos_in_combined + 1,
                             NewRowValues(rec,
                                 IF above
                                 THEN combined_data[insert_pos_in_combined].Case
                                 ELSE NoneVal,
                                 IF above
                                 THEN combined_data[insert_pos_in_combined].NoteDate
                                 ELSE NoneVal))
                  /\ combined_styles' =
                         InsertAt(combined_styles, insert_pos_in_combined + 1,
                             Gem_NewRowStyle(above,
                                 IF above THEN combined_styles[insert_pos_in_combined]
                                 ELSE NoStyleRow))
                  /\ eligible_indices' =
                         ShiftIndices(eligible_indices, insert_pos_in_combined)
                  /\ history' = Append(history, [at |-> insert_pos_in_combined])
                  /\ idx' = idx + 1
                  /\ pc' = IF idx + 1 = Len(all_records) THEN "write" ELSE "loop"
    /\ UNCHANGED <<variant, hasNote_Date, original_ws, ws, file, all_records, best_row,
                   style_api, notesVars, pickVars, scored_insertion_points,
                   insertion_offsets, inserted_count, combined_annotated_rows>>
    /\ UNCHANGED inPlaceUnchanged

InitNew8gem ==
    /\ \E sheet \in {SheetOf(dates, FALSE) : dates \in DateSeqs(InPlaceDates)}
                     \cup LackingSheets(InPlaceDates),
          n \in 0..MaxCands :
         InitLedger("new8gem", FALSE, sheet, RecordsOf(n))
    /\ best_row = NoneVal
    /\ eligible_indices = <<>>
    /\ style_api \in BOOLEAN
    /\ InitNotesVars
    /\ InitPickVars

\* The scripts that build the combined rows in memory.
InitCombined == InitHigh \/ InitNew8gem \/ InitNew9gem
NextCombined ==
    \/ High_Start \/ High_Insert \/ High_Write
    \/ Gem8_Start \/ Gem8_Insert
    \/ Gem_Start \/ Gem_Insert
    \/ WriteBack
SpecCombined == InitCombined /\ [][NextCombined]_vars

\* new9gem and new10: the scripts that rank the rows.
InitTieBreak == InitNew9gem \/ InitNew10
NextTieBreak ==
    \/ Gem_Start \/ Gem_Insert \/ WriteBack
    \/ Ten_Start \/ Ten_Insert \/ SaveWorkbook
SpecTieBreak == InitTieBreak /\ [][NextTieBreak]_vars

----------------------------------------------------------------------------
(* Specifications that join several scripts *)

InitOrder == InitNew6po \/ InitNew9gem
NextOrder == Po_Start \/ Po_Insert \/ SaveWorkbook \/ Gem_Start \/ Gem_Insert \/ WriteBack
SpecOrder == InitOrder /\ [][NextOrder]_vars

\* new6po, new5high and new6up: the scripts that re-index the eligible list
\* after each insertion.
SpecReindex ==
    /\ InitNew6po \/ InitHigh
    /\ [][\/ Po_Start \/ Po_Insert \/ SaveWorkbook
          \/ High_Start \/ High_Insert \/ High_Write]_vars

\* new9gem and new9gemin: the scripts that deep-copy the inherited style.
SpecStyles ==
    (InitNew9gem \/ InitNew9gemin) /\ [][NextNew9gem \/ NextNew9gemin]_vars

Init ==
    \/ InitInPlace \/ InitNew9gem \/ InitNew9gemin
    \/ InitNew10 \/ InitInsertNotes \/ InitPick \/ InitHigh \/ InitNew8gem
    \/ InitDate \/ InitParse \/ InitApt \/ InitVariants
Next ==
    \/ NextInPlace \/ NextNew9gem \/ NextNew9gemin
    \/ Ten_Start \/ Ten_Insert
    \/ Notes_Start \/ Notes_NextCase \/ Notes_Insert
    \/ Apt_Start \/ Apt_Insert
    \/ Pick \/ Date_Pick \/ Parse
    \/ Variants_NextCase \/ Variants_Emit
    \/ High_Start \/ High_Insert \/ High_Write
    \/ Gem8_Start \/ Gem8_Insert
Spec == Init /\ [][Next]_vars

----------------------------------------------------------------------------
(* Properties *)

DataValues(sheet) == [k \in 1..Len(sheet) - 1 |-> sheet[k + 1].v]
OriginalValues == DataValues(original_ws)
IsOriginalValue(v) == v.Note \in 101..199
IsInsertedValue(v) == v.Note \in 201..299
OriginalsIn(values) == SelectSeq(values, IsOriginalValue)
GemStarted == variant = "new9gem" /\ pc \in {"loop", "write", "done", "crashed"}

\* C1: order preservation (new6po, new9gem).  In every state of a batch the
\* pre-existing rows of the ledger, taken in order, are exactly the rows that
\* were loaded, values unchanged, and the ledger has grown by the number of
\* records placed so far; the same holds of the worksheet and of the saved file.
C1_OrderPreservation ==
    /\ OriginalsIn(DataValues(ws)) = OriginalValues
    /\ OriginalsIn(DataValues(file)) = OriginalValues
    /\ variant = "new6po" => Len(ws) = Len(original_ws) + idx
    /\ GemStarted =>
         /\ OriginalsIn(combined_data) = OriginalValues
         /\ Len(combined_data) = Len(OriginalValues) + inserted_count
    /\ (variant = "new9gem" /\ pc = "done") =>
         /\ Len(ws) = Len(original_ws) + inserted_count
         /\ file = ws
    /\ (variant = "new6po" /\ pc = "done") => file = ws

C1_Witness ==
    /\ variant = "new9gem" /\ pc = "done"
    /\ inserted_count = 2
    /\ Len(original_ws) = 4
    /\ IsInsertedValue(ws[3].v)

\* C2: inheritance as an invariant of the batch (new6po, new7to, new8op).
\* After every insertion step, each inserted row with a data row above it has
\* the Case and Note Date of the row currently directly above it.
C2_InheritanceInvariant ==
    \A i \in 3..Len(ws) :
        IsInsertedValue(ws[i].v) =>
            /\ ws[i].v.Case = ws[i - 1].v.Case
            /\ ws[i].v.NoteDate = ws[i - 1].v.NoteDate

\* A later record has been inserted directly above an earlier inserted row,
\* both below a pre-existing data row.
C2_Witness ==
    /\ variant = "new7to" /\ idx = 2
    /\ \E i \in 3..Len(ws) - 1 :
         /\ IsOriginalValue(ws[i - 1].v)
         /\ ws[i].v.Note = all_records[2].Note
         /\ ws[i + 1].v.Note = all_records[1].Note

\* C4: no stale index in new7to.  Every record of the batch is inserted
\* immediately above a row whose Note Date is on or before the threshold date.
C4_NoStaleIndex ==
    variant = "new7to" =>
        \A k \in 1..Len(history) :
            /\ parse_note_date(history[k].below.v.NoteDate) # NoneVal
            /\ parse_note_date(history[k].below.v.NoteDate) <= threshold_date

----------------------------------------------------------------------------
(* Properties of new9gem *)

\* The history entries of the records that were placed.
Placed == {k \in 1..Len(history) : history[k].placed}

\* All target positions taken on the pre-batch snapshot, the insertions then
\* applied from the highest snapshot index to the lowest; each new row takes
\* Case and Note Date from the row above its position.
RECURSIVE ApplyHighestFirst(_, _)
ApplyHighestFirst(ledger, K) ==
    IF K = {} THEN ledger
    ELSE LET k == CHOOSE x \in K : \A y \in K : history[y].slot <= history[x].slot
             at == history[k].slot
         IN  ApplyHighestFirst(
                 InsertAt(ledger, at + 1,
                          Gem_NewRowValues(JsonlRecord(history[k].note - 200), at > 0,
                                           IF at > 0 THEN ledger[at]
                                           ELSE [c \in Cols |-> NoneVal])),
                 K \ {k})

\* Position (1-based) in the live ledger of the pre-existing row with 0-based
\* original index i.
LivePosition(i) ==
    CHOOSE p \in 1..Len(combined_data) : combined_data[p].Note = 100 + (i + 1)

\* C3: index stability (new9gem).  For every slot still to be consumed the
\* live index original + offset is the current position of the pre-existing
\* row that owns the slot, every consumed slot was used at that position, and
\* the ledger equals the snapshot with the insertions applied highest index
\* first; the worksheet written at the end is that ledger.
C3_IndexStability ==
    GemStarted =>
        /\ \A q \in 1..Len(scored_insertion_points) :
             LET i == scored_insertion_points[q].idx
             IN  CurrentInsertIdx(insertion_offsets, i) + 1 = LivePosition(i)
        /\ \A k \in Placed :
             LivePosition(history[k].slot) > 1
             /\ combined_data[LivePosition(history[k].slot) - 1].Note = history[k].note
        /\ combined_data = ApplyHighestFirst(OriginalValues, Placed)
        /\ pc = "done" => DataValues(ws) = ApplyHighestFirst(OriginalValues, Placed)

\* Two records placed, the second below the first: its index used the offset.
C3_Witness ==
    /\ variant = "new9gem" /\ pc = "done"
    /\ Len(history) = 2 /\ Placed = {1, 2}
    /\ history[1].slot < history[2].slot
    /\ history[2].at = history[2].slot + 1

\* Smallest 0-based tier whose target date the date is on or after.
Tiers == 1..Len(sorted_intervals)
MatchesTier(date, t) == date >= calculated_target_dates(sorted_intervals[t])
BestTier(date) == Min({t \in Tiers : MatchesTier(date, t)}) - 1
Scorable(cell_value) ==
    /\ parse_note_date(cell_value) # NoneVal
    /\ \E t \in Tiers : MatchesTier(parse_note_date(cell_value), t)

\* C6: tier priority dominates raw distance (new9gem).  For any two dated
\* rows A and B that match a tier, if A's best tier has the smaller index
\* then A's score is strictly lower than B's.
C6_TierPriorityDominates ==
    variant = "new9gem" =>
        \A a, b \in 2..Len(original_ws) :
            LET da == original_ws[a].v.NoteDate
                db == original_ws[b].v.NoteDate
            IN  (Scorable(da) /\ Scorable(db) /\ BestTier(da) < BestTier(db))
                    => BestScore(da) < BestScore(db)

Ranking == ScoredInsertionPoints(OriginalValues)

\* C7: ranked slot consumption (new9gem).  The slots are ranked by ascending
\* score, the k-th processed record takes the k-th ranked slot, and no
\* pre-existing row is the slot of two records.
C7_RankedConsumption ==
    GemStarted =>
        LET R == Ranking
            n == Len(history)
        IN  /\ \A i \in 1..Len(R) - 1 : R[i].score <= R[i + 1].score
            /\ n <= Len(R)
            /\ \A k \in 1..n :
                 /\ history[k].slot = R[k].idx
                 /\ history[k].score = R[k].score
                 /\ history[k].score =
                        BestScore(OriginalValues[history[k].slot + 1].NoteDate)
                 /\ history[k].note = all_records[k].Note
            /\ \A i, j \in 1..n : i # j => history[i].slot # history[j].slot
            /\ scored_insertion_points = SubSeq(R, n + 1, Len(R))

\* The better-ranked slot lies lower in the sheet than the next one.
C7_Witness ==
    /\ variant = "new9gem"
    /\ Len(history) = 2 /\ Placed = {1, 2}
    /\ history[1].score < history[2].score
    /\ history[1].slot > history[2].slot

AllUnscorable == \A k \in 1..Len(OriginalValues) : ~Scorable(OriginalValues[k].NoteDate)
BatchEnded == pc \in {"done", "crashed", "noeligible", "norecords"}

\* C8: "no eligible target" (new9gem) is reported, with nothing inserted and
\* nothing written or saved, exactly when the ledger has no data rows or every
\* row scores +infinity; when some row has a finite score, at least one
\* record is inserted.
C8_NoEligibleIff ==
    (variant = "new9gem" /\ BatchEnded /\ all_records # <<>>) =>
        /\ (pc = "noeligible") <=> AllUnscorable
        /\ pc = "noeligible" =>
             (/\ inserted_count = 0
              /\ DataValues(ws) = OriginalValues
              /\ file = original_ws)
        /\ ~AllUnscorable => inserted_count >= 1

\* C9: skip and count (new9gem).  With N records and M rows of which one at
\* least has a finite score, the batch ends with exactly min(N, M) records
\* placed and the ledger, holding them, written and saved.
C9_SkipAndCount ==
    (variant = "new9gem" /\ BatchEnded /\ all_records # <<>> /\ ~AllUnscorable) =>
        /\ inserted_count = Min({Len(all_records), Len(OriginalValues)})
        /\ pc = "done"
        /\ Len(file) = Len(original_ws) + inserted_count

----------------------------------------------------------------------------
(* Properties of new9gemin *)

\* C5: selective style override (new9gemin).  For every inserted row only the
\* fill of the Note column is the highlight; every other style attribute is
\* that of the preceding row, or empty when there is no preceding row.
C5_SelectiveStyleOverride ==
    variant = "new9gemin" =>
        \A i \in 1..Len(combined_data) :
            IsInsertedValue(combined_data[i]) =>
                LET prev == IF i > 1 THEN combined_styles[i - 1].d
                            ELSE [c \in Cols |-> EmptyStyleDict]
                    mine == combined_styles[i].d
                IN  /\ mine["Note"].fill = HighlightFill
                    /\ mine["Note"].font = prev["Note"].font
                    /\ \A c \in Cols \ {"Note"} : mine[c] = prev[c]

----------------------------------------------------------------------------
(* Properties of the rows inserted directly under the header *)

\* C11: a record inserted as the first data row (sheet row 2, no ledger row
\* above it) has an empty Case and an empty Note Date (new6po, new7to, new10).
C11_FirstDataRowLeftNull ==
    variant \in {"new6po", "new7to", "new10"} =>
        ((Len(ws) >= 2 /\ IsInsertedValue(ws[2].v)) =>
            (ws[2].v.Case = NoneVal /\ ws[2].v.NoteDate = NoneVal))

----------------------------------------------------------------------------
(* Properties of insert_notes *)

\* C12: in ap1log the Note Date written on an inserted row is the Note Date
\* of the row directly above the insertion point, not the cutoff (Queue In
\* Date minus 45 days).
C12_InheritsPrecedingDate ==
    variant = "ap1log" =>
        \A i \in 3..Len(ws) :
            (/\ ws[i].v.Note \in 201..299
             /\ ws[i - 1].v.Note \in 101..199
             /\ pd_to_datetime(ws[i - 1].v.NoteDate) # NoneVal) =>
                pd_to_datetime(ws[i].v.NoteDate) = pd_to_datetime(ws[i - 1].v.NoteDate)

\* The entry of `history` that opened the batch insertion k belongs to.
CaseEntryOf(k) ==
    history[CHOOSE j \in 1..k :
              /\ history[j].kind = "case"
              /\ \A l \in (j + 1)..k : history[l].kind # "case"]

\* C14: when the sheet has no row for the case, each record of the case is
\* inserted as the row right after the last row of the sheet, and no empty
\* row is left in the sheet (ap1log, apt1biased).
C14_AppendedWithoutGap ==
    variant \in {"ap1log", "apt1biased"} =>
        /\ \A k \in 1..Len(history) :
             (history[k].kind = "insert" /\ CaseEntryOf(k).norows) =>
                 history[k].at = history[k].max_row + 1
        /\ \A r \in 2..Len(ws) : ws[r] # BlankNotesRow

----------------------------------------------------------------------------
(* Properties of pick_insertion_date *)

\* C13: when the queue date is present and no Note Date of the case lies in
\* the 90 days before it (inclusive), pick_insertion_date returns the queue
\* date minus 45 days (apt2ny, aptlat).
C13_EmptyWindowGivesCutoff ==
    (/\ variant \in {"apt2ny", "aptlat"} /\ pc = "picked"
     /\ queue_date # NoneVal
     /\ \A k \in 1..Len(case_block) :
          ~(/\ case_block[k] # NoneVal
            /\ case_block[k] >= queue_date - WindowDays
            /\ case_block[k] <= queue_date))
        => insert_date = queue_date - ThresholdDays

----------------------------------------------------------------------------
(* Properties of the tie-break *)

\* Sheet rows of the loaded sheet dated on or before the threshold date.
OnOrBeforeThreshold ==
    {r \in 2..Len(original_ws) :
        /\ parse_note_date(original_ws[r].v.NoteDate) # NoneVal
        /\ parse_note_date(original_ws[r].v.NoteDate) <= threshold_date}

\* C15: ties go to the earliest ledger position.  In new9gem rows of equal
\* score are ranked, and consumed, in increasing original row index; in new10
\* the insertion row is the first row, in sheet order, among the rows that
\* share the latest Note Date on or before the threshold date.
C15_EarliestPositionWins ==
    /\ GemStarted =>
         LET R == Ranking
         IN  /\ \A i, j \in 1..Len(R) :
                  (i < j /\ R[i].score = R[j].score) => R[i].idx < R[j].idx
             /\ \A i, j \in 1..Len(history) :
                  (i < j /\ history[i].score = history[j].score)
                      => history[i].slot < history[j].slot
    /\ (variant = "new10" /\ pc \in {"loop", "save", "done"}) =>
         /\ best_row \in OnOrBeforeThreshold
         /\ \A r \in OnOrBeforeThreshold :
              /\ original_ws[r].v.NoteDate <= original_ws[best_row].v.NoteDate
              /\ original_ws[r].v.NoteDate = original_ws[best_row].v.NoteDate
                    => best_row <= r
         /\ \A k \in 1..Len(history) : history[k].at = best_row

\* new10 has inserted above the first of two rows that share the latest
\* eligible date, a row with an earlier date standing before them.
C15_Witness ==
    /\ variant = "new10" /\ pc = "done" /\ idx >= 1
    /\ \E a, b, c \in OnOrBeforeThreshold :
         /\ c < a /\ a < b /\ best_row = a
         /\ original_ws[a].v.NoteDate = original_ws[b].v.NoteDate
         /\ original_ws[c].v.NoteDate < original_ws[a].v.NoteDate
         /\ ws[a].v.Note \in 201..299

----------------------------------------------------------------------------
(* Properties of the chronological merge *)

\* C16: new9gemin never reorders pre-existing rows: for every pair of
\* pre-existing rows A before B in the input sheet, A is before B in the rows
\* built in memory and in the sheet written, whatever the input ledger.
C16_MergeKeepsOrder ==
    variant = "new9gemin" =>
        /\ \A i, j \in 1..Len(combined_data) :
             (/\ i < j
              /\ IsOriginalValue(combined_data[i])
              /\ IsOriginalValue(combined_data[j]))
                 => combined_data[i].Note < combined_data[j].Note
        /\ \A i, j \in 2..Len(ws) :
             (i < j /\ IsOriginalValue(ws[i].v) /\ IsOriginalValue(ws[j].v))
                 => ws[i].v.Note < ws[j].v.Note

----------------------------------------------------------------------------
(* Properties of the scripts that build the combined rows in memory *)

\* C17: with a ledger that has no data rows, no record is placed: the rows in
\* memory stay empty and the sheet, in memory and as saved, has no data row
\* (new5high, new8gem).
C17_EmptyLedgerNoOp ==
    (variant \in {"new5high", "new8gem"} /\ Len(original_ws) = 1) =>
        /\ combined_data = <<>>
        /\ Len(ws) = 1
        /\ Len(file) = 1

LacksRequiredColumn(sheet) ==
    sheet[1].v.Case = NoneVal \/ sheet[1].v.NoteDate = NoneVal

\* C18: when the sheet lacks the Case or the Note Date column, new8gem and
\* new9gem leave the sheet, header row included, as it was loaded, in memory
\* and in the file, and place no record.
C18_MissingColumnRefused ==
    (variant \in {"new8gem", "new9gem"} /\ LacksRequiredColumn(original_ws)) =>
        /\ ws = original_ws
        /\ file = original_ws
        /\ \A k \in 1..Len(combined_data) : ~IsInsertedValue(combined_data[k])

\* Which rows of the combined list were inserted, after the first k insertions.
RECURSIVE InsertedFlags(_)
InsertedFlags(k) ==
    IF k = 0 THEN [i \in 1..Len(original_ws) - 1 |-> FALSE]
    ELSE InsertAt(InsertedFlags(k - 1), history[k].at + 1, TRUE)

\* C20: in the sheet written by new5high and new6up the Note cell of a row
\* has the highlight fill if and only if the row was inserted from a record.
C20_HighlightIffInserted ==
    (variant \in {"new5high", "new6up"} /\ pc = "done") =>
        \A i \in 1..Len(ws) - 1 :
            (ws[i + 1].s["Note"].fill = HighlightFill)
                <=> InsertedFlags(Len(history))[i]

----------------------------------------------------------------------------
(* Properties of new9gem: where the inserted rows stand *)

\* Every inserted row of the list is directly followed by a pre-existing row
\* (so the last row is pre-existing).
EachInsertedRowAboveOriginal(values) ==
    \A i \in 1..Len(values) :
        IsInsertedValue(values[i]) =>
            (i < Len(values) /\ IsOriginalValue(values[i + 1]))

\* C19: new9gem never inserts at the very end: the last row of the ledger is
\* the pre-existing last row, and every inserted row is immediately followed
\* by a pre-existing row, in memory throughout the batch and in the sheet
\* written and saved.
C19_NeverAtTheEnd ==
    variant = "new9gem" =>
        /\ GemStarted =>
             /\ EachInsertedRowAboveOriginal(combined_data)
             /\ (OriginalValues # <<>>) =>
                    combined_data[Len(combined_data)]
                        = OriginalValues[Len(OriginalValues)]
        /\ EachInsertedRowAboveOriginal(DataValues(ws))
        /\ EachInsertedRowAboveOriginal(DataValues(file))
        /\ Len(ws) > 1 => ws[Len(ws)].v = original_ws[Len(original_ws)].v
        /\ Len(file) > 1 => file[Len(file)].v = original_ws[Len(original_ws)].v

\* A finished batch placed a record at the slot of the last row and another
\* one higher up.
C19_Witness ==
    /\ variant = "new9gem" /\ pc = "done"
    /\ Placed = {1, 2}
    /\ \E k \in Placed : history[k].slot = Len(OriginalValues) - 1
    /\ IsInsertedValue(file[Len(file) - 1].v)
    /\ IsOriginalValue(file[Len(file)].v)

----------------------------------------------------------------------------
(* Properties of pick_insertion_date of date.py *)

\* C21: when the queue date is present and the latest Note Date of the case
\* is earlier than the queue date, the date pick_insertion_date (date.py)
\* returns is strictly after the latest Note Date and strictly before the
\* queue date, whatever the gap between the two.
C21_StrictlyBetween ==
    (/\ variant = "date" /\ pc = "picked"
     /\ queue_date # NoneVal
     /\ sort_values(case_block) # <<>>
     /\ sort_values(case_block)[Len(sort_values(case_block))] < queue_date)
        => LET last_note_date ==
                   sort_values(case_block)[Len(sort_values(case_block))]
           IN  last_note_date < insert_date /\ insert_date < queue_date

----------------------------------------------------------------------------
(* Properties of parse_note_date of new9gem.py *)

\* The text has the shape of the format: three runs of digits the directives
\* accept, with the format's separators between them.
HasShape(toks, fmt) ==
    /\ Len(toks) = 5
    /\ \A i \in {1, 3, 5} : MatchesDirective(fmt[i], toks[i])
    /\ \A i \in {2, 4} : toks[i].t = fmt[i]

\* C22: parse_note_date (new9gem.py) is total: for an empty cell, a datetime,
\* a number or a string it returns a date or None and never raises, and it
\* returns None when the input is empty or is a string that matches none of
\* the formats m/d/YYYY, mm-dd-yy, YYYY-mm-dd, m/d/yy.
C22_ParseIsTotal ==
    (variant = "parse_note_date" /\ pc = "parsed") =>
        /\ parsed.tag \in {"date", "None"}
        /\ parsed.tag = "date" => parsed.ordinal \in 1..MaxOrdinal
        /\ (\/ cell_input.kind = "None"
            \/ /\ cell_input.kind = "str"
               /\ \A k \in 1..Len(Formats) : ~HasShape(cell_input.toks, Formats[k]))
              => parsed.tag = "None"

C22_Witness ==
    /\ variant = "parse_note_date" /\ pc = "parsed"
    /\ cell_input.kind = "inf"
    /\ parsed.tag = "None"

----------------------------------------------------------------------------
(* Properties of the re-indexed eligible list *)

\* The values of the loaded rows the eligible list was built from, in order.
LoadedEligibleValues ==
    IF variant = "new6po"
    THEN [k \in 1..Len(EligibleRows(original_ws)) |->
            original_ws[EligibleRows(original_ws)[k]].v]
    ELSE LET found == EligibleIndices(OriginalValues)
             kept == IF variant = "new6up"
                     THEN SelectSeq(found, LAMBDA i : i >= 1) ELSE found
         IN  [k \in 1..Len(kept) |-> OriginalValues[kept[k] + 1]]

OnOrBeforeThresholdValue(v) ==
    /\ parse_note_date(v.NoteDate) # NoneVal
    /\ parse_note_date(v.NoteDate) <= threshold_date

\* C23: in new6po, new5high and new6up every eligible index designates, in
\* every state of the batch, the pre-existing row it designated when the list
\* was built; and when the list is not empty each candidate is inserted
\* immediately before one of those rows, whose Note Date is on or before the
\* threshold date.
C23_ReindexKeepsRows ==
    /\ (variant = "new6po" /\ pc \in {"loop", "save", "done"}) =>
         /\ [k \in 1..Len(eligible_rows) |-> ws[eligible_rows[k]].v]
              = LoadedEligibleValues
         /\ history # <<>> =>
              LET at == history[Len(history)].at
              IN  /\ at + 1 \in Range(eligible_rows)
                  /\ ws[at + 1].v \in Range(OriginalValues)
                  /\ OnOrBeforeThresholdValue(ws[at + 1].v)
    /\ (variant \in {"new5high", "new6up"} /\ pc \in {"loop", "newsheet", "done"}) =>
         /\ [k \in 1..Len(eligible_indices) |-> combined_data[eligible_indices[k] + 1]]
              = LoadedEligibleValues
         /\ (history # <<>> /\ eligible_indices # <<>>) =>
              LET at == history[Len(history)].at
              IN  /\ at + 1 \in Range(eligible_indices)
                  /\ combined_data[at + 2] \in Range(OriginalValues)
                  /\ OnOrBeforeThresholdValue(combined_data[at + 2])

C23_Witness ==
    /\ variant = "new6po" /\ pc = "done"
    /\ Len(history) = 2
    /\ history[1].at = 3 /\ history[2].at = 2
    /\ eligible_rows = <<3, 5>>

----------------------------------------------------------------------------
(* Properties of the case_rows list of insert_notes *)

\* C24: in insert_notes of ap1log, for a case that has rows, the position each
\* candidate of the batch is inserted at (computed from case_rows, built once
\* before the batch) is the position the rule gives on the sheet as it is at
\* that moment: before the first row of the case dated on or after the
\* cutoff, else after the case's last row.
C24_StaleIndexIsLivePosition ==
    (/\ variant = "ap1log" /\ pc = "insert"
     /\ ~history[Len(history) - idx].norows)
        => LET case_no == selected_cases[case_i + 1]
               cutoff == FirstMidnight(case_queue_dates[case_no] - ThresholdDays,
                                       queue_time)
           IN  InsertAtOf(case_rows, cutoff) = InsertAtOf(CaseRows(ws, case_no), cutoff)

----------------------------------------------------------------------------
(* Properties of the values a new row of new9gem inherits *)

\* C25: in new9gem a batch that inserts a candidate at an index greater than
\* 0 does not raise, and the candidate carries the Case and the Note Date of
\* the row directly above it.
C25_InheritsWithoutRaising ==
    (variant = "new9gem" /\ history # <<>> /\ history[Len(history)].at > 0) =>
        /\ pc # "crashed"
        /\ history[Len(history)].placed
        /\ pc = "loop" =>
             LET at == history[Len(history)].at
             IN  /\ combined_data[at + 1].Case = combined_data[at].Case
                 /\ combined_data[at + 1].NoteDate = combined_data[at].NoteDate

----------------------------------------------------------------------------
(* Properties of the styles of the other rows *)

\* C26: copy-on-inherit (new9gem, new9gemin).  A step of the batch that adds a
\* row and highlights it leaves the style of every row already in the list as
\* it was; a pre-existing row enters the list with the style read from the
\* sheet; and the styles are written to the sheet as they are in the list.
C26_HighlightLeavesOtherRows ==
    [][/\ (/\ variant \in {"new9gem", "new9gemin"} /\ pc = "loop"
           /\ combined_styles' # combined_styles) =>
             LET at == IF variant = "new9gem"
                       THEN history'[Len(history')].at + 1
                       ELSE Len(combined_styles')
             IN  /\ combined_styles =
                        SubSeq(combined_styles', 1, at - 1)
                        \o SubSeq(combined_styles', at + 1, Len(combined_styles'))
                 /\ (variant = "new9gemin" /\ ~combined_annotated_rows[idx + 1].is_new)
                      => combined_styles'[at] = combined_annotated_rows[idx + 1].style
       /\ (variant = "new9gem" /\ pc = "start" /\ pc' = "loop") =>
             \A k \in 1..Len(ws) - 1 : combined_styles'[k].d = ws[k + 1].s
       /\ (variant \in {"new9gem", "new9gemin"} /\ pc = "write") =>
             \A k \in 1..Len(combined_styles) : ws'[k + 1].s = combined_styles[k].d
      ]_vars

C26_Witness ==
    /\ variant = "new9gem" /\ pc = "done"
    /\ Len(history) = 2
    /\ history[1].at = 1 /\ history[1].placed
    /\ ws[2].s["Note"].fill = 21
    /\ ws[3].s["Note"].fill = HighlightFill

----------------------------------------------------------------------------
(* Properties of the anchor of new8op *)

\* Loaded sheet rows inside the 90-day window.
WindowRows == {r \in 2..Len(original_ws) : InWindow(original_ws, r)}

\* The window row that has exactly floor(n / 2) window rows before it when
\* the rows are ordered by date, rows of equal date in sheet order.
MedianRow ==
    CHOOSE r \in WindowRows :
        Cardinality({q \in WindowRows :
            \/ original_ws[q].v.NoteDate < original_ws[r].v.NoteDate
            \/ (original_ws[q].v.NoteDate = original_ws[r].v.NoteDate /\ q < r)})
          = Cardinality(WindowRows) \div 2

C27_AnchorIsMedian ==
    (variant = "new8op" /\ pc \in {"loop", "save", "done"}) =>
        Op_TargetRow(candidate_rows) = MedianRow

C27_BlockAboveAnchor ==
    (variant = "new8op" /\ pc \in {"save", "done"}) =>
        /\ \A i \in MedianRow..(MedianRow + idx - 1) : IsInsertedValue(ws[i].v)
        /\ ws[MedianRow + idx] = original_ws[MedianRow]

\* C27: in new8op the anchor is the window row at index floor(n/2) of the
\* date order (ties in sheet order), every candidate is inserted immediately
\* above that pre-existing row, and after the batch the inserted rows are one
\* contiguous block directly above it.
C27_EveryCandidateAboveAnchor ==
    /\ C27_AnchorIsMedian
    /\ variant = "new8op" =>
         \A k \in 1..Len(history) : history[k].below = original_ws[MedianRow]
    /\ C27_BlockAboveAnchor

----------------------------------------------------------------------------
(* Properties of the whole-sheet cutoff of apt.py and apt1.py *)

\* The Note Dates of the dated rows of the sheet, in sheet order.
DatedRows(sheet) ==
    SelectSeq([r \in 1..Len(sheet) - 1 |-> pd_to_datetime(sheet[r + 1].v.NoteDate)],
              LAMBDA d : d # NoneVal)

NonDecreasing(dates) == \A i \in 1..Len(dates) - 1 : dates[i] <= dates[i + 1]

----------------------------------------------------------------------------
(* Properties of create_case_variants *)

\* The rows emitted for variant k of case c.
VariantRows(c, k) ==
    SelectSeq(all_variant_rows, LAMBDA row : row.for_case = c /\ row.Variant = k)

\* The Notes of the rows of case c in the Note Activity sheet.
OriginalNotesOf(c) ==
    LET block == CaseBlock(original_ws, c)
    IN  {block[i].Note : i \in 1..Len(block)}

\* C28: every variant block create_case_variants emits (apt2ny, aptlat,
\* keepexample) holds the original notes of the case, each once, and exactly
\* one inserted note; a note inserted for an earlier variant is not in it.
C28_OneInsertedNotePerVariant ==
    variant \in {"apt2ny_variants", "aptlat_variants", "keepexample"} =>
        \A i \in 1..Len(all_variant_rows) :
            LET rows == VariantRows(all_variant_rows[i].for_case,
                                    all_variant_rows[i].Variant)
                originals == SelectSeq(rows, LAMBDA row : row.Note \in 101..199)
                inserted == SelectSeq(rows, LAMBDA row : row.Note \in 201..299)
            IN  /\ Len(inserted) = 1
                /\ Len(originals) = Cardinality(OriginalNotesOf(all_variant_rows[i].for_case))
                /\ {originals[j].Note : j \in 1..Len(originals)}
                     = OriginalNotesOf(all_variant_rows[i].for_case)


\* C30: in new6up.py every insertion index used during a batch is at least 1,
\* on every ledger, the empty one included, so an inserted row always has a
\* data row above it to copy Case and Note Date from.
C30_InsertionIndexAtLeastOne ==
    variant = "new6up" =>
        \A k \in 1..Len(history) : history[k].at >= 1

====
